---- MODULE Spec2Model ----
(***************************************************************************)
(* Workflow execution engine: Executor.Execute walks a workflow graph from *)
(* its start node, dispatches one behaviour per node type against a        *)
(* variable map, appends one ExecutionStep per visited node and resolves   *)
(* the next node through the declared edges.                               *)
(*                                                                         *)
(* Dynamically typed Go values (interface{}) are records [t, s, n, b]: the *)
(* dynamic type tag t and one payload field per Go type, so that a type    *)
(* assertion x.(string) is the test x.t = "string".  A map is a function   *)
(* from its keys to such values; reading a missing key gives Absent.       *)
(* float64 readings are whole degrees.                                     *)
(***************************************************************************)
EXTENDS Integers, Sequences, FiniteSets, TLC

VARIABLES
  wf,          \* the *Workflow handed to Execute: [nodes, edges]
  inputs,      \* the caller's inputs map
  inputs0,     \* history: the caller's inputs map as it was at the call
  inPlace,     \* TRUE: Execute passes `inputs` itself to the behaviours
               \* (first executor source); FALSE: it passes a copy
  pc,          \* "idle" | "loop" | "returned"
  vars,        \* the map the node behaviours read and write
  current,     \* index into wf.nodes of the current node, 0 for nil
  steps,       \* the steps slice built so far
  status,      \* the local `status`
  resp,        \* the returned *ExecutionResponse
  dispatched,  \* history: number of nodes dispatched by the switch
  lookups,     \* history: number of fetchWeather calls
  ctxDone,     \* the caller's ctx has been cancelled
  fetched,     \* history: what the first fetchWeather call returned
  callB,       \* a second Execute call on the same Executor:
               \* [pc, vars, current, steps, status, resp, shared,
               \*  successive, inputs0]
  svc          \* the HTTP service around Execute: the workflows row, the
               \* request being handled and the handler's position

allVars == <<wf, inputs, inputs0, inPlace, pc, vars, current, steps, status, resp,
             dispatched, lookups, ctxDone, fetched, callB, svc>>

-----------------------------------------------------------------------------
(* Bounds *)

MaxNodes == 3
MaxEdges == 2
\* Cap on the trace length: one more than the node count, so that a walk
\* that reaches the cap has visited some node twice.
MaxSteps == MaxNodes + 1

-----------------------------------------------------------------------------
(* Dynamically typed values *)

Absent  == [t |-> "absent", s |-> "",  n |-> 0, b |-> FALSE]
Str(x)  == [t |-> "string", s |-> x,   n |-> 0, b |-> FALSE]
Flt(x)  == [t |-> "float",  s |-> "",  n |-> x, b |-> FALSE]
IntV(x) == [t |-> "int",    s |-> "",  n |-> x, b |-> FALSE]
Bool(x) == [t |-> "bool",   s |-> "",  n |-> 0, b |-> x]

\* make(map[string]interface{})
EmptyMap == [k \in {} |-> Absent]

\* v, exists := m[k]
Get(m, k) == IF k \in DOMAIN m THEN m[k] ELSE Absent
Has(m, k) == k \in DOMAIN m
KeysOf(m) == DOMAIN m

\* m[k] = v
Put(m, k, v) == [x \in DOMAIN m \cup {k} |-> IF x = k THEN v ELSE m[x]]

\* The map literal of the given total function, without its Absent entries.
MapOf(f) == [k \in {x \in DOMAIN f : f[x] # Absent} |-> f[k]]

\* Error values: the fixed part of the message and its formatted argument.
NoError == [msg |-> "", arg |-> ""]
Err(m, a) == [msg |-> m, arg |-> a]

-----------------------------------------------------------------------------
(* Node behaviours.  Each returns [err, vars, hasOutput, output, called]:   *)
(* the returned error (NoError for nil), the variable map after the call,   *)
(* whether step.Output was assigned and to what, and whether fetchWeather   *)
(* was called.                                                              *)

Result(e, vs, has, out, call) ==
  [err |-> e, vars |-> vs, hasOutput |-> has, output |-> out, called |-> call]

Fail(e, vs, call) == Result(e, vs, FALSE, EmptyMap, call)

\* The loop over inputFields: a non-string element is skipped, a name that
\* is a key of vars is copied, a name that is not a key ends the loop with
\* an error.
RECURSIVE FormLoop(_, _, _, _)
FormLoop(items, i, vs, out) ==
  IF i > Len(items) THEN [err |-> NoError, out |-> out]
  ELSE LET field == items[i] IN
       IF field.t # "string" THEN FormLoop(items, i + 1, vs, out)
       ELSE IF Has(vs, field.s)
            THEN FormLoop(items, i + 1, vs,
                          Put(out, field.s, Get(vs, field.s)))
            ELSE [err |-> Err("missing required input field", field.s),
                  out |-> out]

\* Variant: an element of inputFields that is not a string is an error.
processFormNode_Strict(node, vs) ==
  LET inputFields == node.metadata.inputFields IN
  IF \/ inputFields.shape # "list"
     \/ \E i \in 1..Len(inputFields.items) : inputFields.items[i].t # "string"
  THEN Fail(Err("invalid inputFields in form node metadata", ""), vs, FALSE)
  ELSE LET r == FormLoop(inputFields.items, 1, vs, EmptyMap) IN
       IF r.err # NoError THEN Fail(r.err, vs, FALSE)
       ELSE Result(NoError, vs, TRUE, r.out, FALSE)

\* Variant: the output is the whole variable map, not the listed fields.
processFormNode_AllVars(node, vs) ==
  LET inputFields == node.metadata.inputFields IN
  IF inputFields.shape # "list"
  THEN Fail(Err("invalid inputFields in form node metadata", ""), vs, FALSE)
  ELSE LET r == FormLoop(inputFields.items, 1, vs, EmptyMap) IN
       IF r.err # NoError THEN Fail(r.err, vs, FALSE)
       ELSE Result(NoError, vs, TRUE, vs, FALSE)

processFormNode(node, vs) ==
  LET inputFields == node.metadata.inputFields IN
  IF inputFields.shape # "list"
  THEN Fail(Err("invalid inputFields in form node metadata", ""), vs, FALSE)
  ELSE LET r == FormLoop(inputFields.items, 1, vs, EmptyMap) IN
       IF r.err # NoError THEN Fail(r.err, vs, FALSE)
       ELSE Result(NoError, vs, TRUE, r.out, FALSE)

\* The loop over the options list: the first option that is a map whose
\* "city" is the given string and whose "lat" and "lon" are both float64.
RECURSIVE CoordLoop(_, _, _)
CoordLoop(items, i, city) ==
  IF i > Len(items) THEN <<0, 0>>
  ELSE LET o == items[i] IN
       IF /\ o.isMap
          /\ o.city.t = "string" /\ o.city.s = city
          /\ o.lat.t = "float"
          /\ o.lon.t = "float"
       THEN <<o.lat.n, o.lon.n>>
       ELSE CoordLoop(items, i + 1, city)

getCityCoordinates(node, city) ==
  LET options == node.metadata.options IN
  IF options.shape # "list" THEN <<0, 0>>
  ELSE CoordLoop(options.items, 1, city)

\* Variant: the (0,0) test is missing, so the lookup is made for
\* coordinates that were not found.
processIntegrationNode_NoSentinel(node, vs, fetch) ==
  LET city == Get(vs, "city") IN
  IF city.t # "string"
  THEN Fail(Err("city not found in variables", ""), vs, FALSE)
  ELSE IF fetch.err # NoError
       THEN Fail(Err("failed to fetch weather data", fetch.err.msg), vs, TRUE)
       ELSE Result(NoError,
                   Put(vs, "temperature", Flt(fetch.temperature)),
                   TRUE,
                   [temperature |-> Flt(fetch.temperature),
                    location    |-> Str(city.s)],
                   TRUE)

\* Variant: the reading goes to the step output only, not to the variables.
processIntegrationNode_NoStore(node, vs, fetch) ==
  LET city == Get(vs, "city") IN
  IF city.t # "string"
  THEN Fail(Err("city not found in variables", ""), vs, FALSE)
  ELSE LET c == getCityCoordinates(node, city.s) IN
       IF c[1] = 0 /\ c[2] = 0
       THEN Fail(Err("coordinates not found for city", city.s), vs, FALSE)
       ELSE IF fetch.err # NoError
            THEN Fail(Err("failed to fetch weather data", fetch.err.msg),
                      vs, TRUE)
            ELSE Result(NoError, vs, TRUE,
                        [temperature |-> Flt(fetch.temperature),
                         location    |-> Str(city.s)],
                        TRUE)

\* Variant: the reading is stored before the error of the lookup is
\* looked at.
processIntegrationNode_StoresFirst(node, vs, fetch) ==
  LET city == Get(vs, "city") IN
  IF city.t # "string"
  THEN Fail(Err("city not found in variables", ""), vs, FALSE)
  ELSE LET c == getCityCoordinates(node, city.s) IN
       IF c[1] = 0 /\ c[2] = 0
       THEN Fail(Err("coordinates not found for city", city.s), vs, FALSE)
       ELSE IF fetch.err # NoError
            THEN Fail(Err("failed to fetch weather data", fetch.err.msg),
                      Put(vs, "temperature", Flt(fetch.temperature)), TRUE)
            ELSE Result(NoError,
                        Put(vs, "temperature", Flt(fetch.temperature)),
                        TRUE,
                        [temperature |-> Flt(fetch.temperature),
                         location    |-> Str(city.s)],
                        TRUE)

\* fetch is the outcome of fetchWeather: [err, temperature].
processIntegrationNode(node, vs, fetch) ==
  LET city == Get(vs, "city") IN
  IF city.t # "string"
  THEN Fail(Err("city not found in variables", ""), vs, FALSE)
  ELSE LET c == getCityCoordinates(node, city.s) IN
       IF c[1] = 0 /\ c[2] = 0
       THEN Fail(Err("coordinates not found for city", city.s), vs, FALSE)
       ELSE IF fetch.err # NoError
            THEN Fail(Err("failed to fetch weather data", fetch.err.msg),
                      vs, TRUE)
            ELSE Result(NoError,
                        Put(vs, "temperature", Flt(fetch.temperature)),
                        TRUE,
                        [temperature |-> Flt(fetch.temperature),
                         location    |-> Str(city.s)],
                        TRUE)

\* Variant: greater_than_or_equal compares with >.
Compare_StrictOrEqual(operator, temperature, threshold) ==
  CASE operator = "greater_than"          -> temperature > threshold
    [] operator = "less_than"             -> temperature < threshold
    [] operator = "equals"                -> temperature = threshold
    [] operator = "greater_than_or_equal" -> temperature > threshold
    [] operator = "less_than_or_equal"    -> temperature <= threshold
    [] OTHER                              -> temperature > threshold

\* The operator switch, default branch included.
Compare(operator, temperature, threshold) ==
  CASE operator = "greater_than"          -> temperature > threshold
    [] operator = "less_than"             -> temperature < threshold
    [] operator = "equals"                -> temperature = threshold
    [] operator = "greater_than_or_equal" -> temperature >= threshold
    [] operator = "less_than_or_equal"    -> temperature <= threshold
    [] OTHER                              -> temperature > threshold

\* Variant: a conditionMet already in the variables is not overwritten.
processConditionNode_KeepSeeded(vs) ==
  LET temperature == Get(vs, "temperature")
      thr         == Get(vs, "threshold")
      op          == Get(vs, "operator")
  IN
  IF temperature.t # "float"
  THEN Fail(Err("temperature not found in variables", ""), vs, FALSE)
  ELSE IF thr.t # "float" /\ thr.t # "int"
  THEN Fail(Err("threshold not found in variables", ""), vs, FALSE)
  ELSE LET threshold    == thr.n
           operator     == IF op.t = "string" THEN op.s ELSE "greater_than"
           conditionMet == Compare(operator, temperature.n, threshold)
       IN Result(NoError,
                 IF Has(vs, "conditionMet") THEN vs
                 ELSE Put(vs, "conditionMet", Bool(conditionMet)),
                 TRUE,
                 [conditionMet |-> Bool(conditionMet),
                  threshold    |-> Flt(threshold),
                  operator     |-> Str(operator),
                  actualValue  |-> Flt(temperature.n),
                  message      |-> Str(IF conditionMet
                                       THEN "condition met"
                                       ELSE "condition not met")],
                 FALSE)

\* Variant: the ok of the threshold assertions is ignored, so a threshold
\* that is neither float64 nor int reads as the zero value.
processConditionNode_ZeroThreshold(vs) ==
  LET temperature == Get(vs, "temperature")
      thr         == Get(vs, "threshold")
      op          == Get(vs, "operator")
  IN
  IF temperature.t # "float"
  THEN Fail(Err("temperature not found in variables", ""), vs, FALSE)
  ELSE LET threshold    == IF thr.t \in {"float", "int"} THEN thr.n ELSE 0
           operator     == IF op.t = "string" THEN op.s ELSE "greater_than"
           conditionMet == Compare(operator, temperature.n, threshold)
       IN Result(NoError,
                 Put(vs, "conditionMet", Bool(conditionMet)),
                 TRUE,
                 [conditionMet |-> Bool(conditionMet),
                  threshold    |-> Flt(threshold),
                  operator     |-> Str(operator),
                  actualValue  |-> Flt(temperature.n),
                  message      |-> Str(IF conditionMet
                                       THEN "condition met"
                                       ELSE "condition not met")],
                 FALSE)

\* Variant: the fallback to an int threshold is missing.
processConditionNode_FloatOnly(vs) ==
  LET temperature == Get(vs, "temperature")
      thr         == Get(vs, "threshold")
      op          == Get(vs, "operator")
  IN
  IF temperature.t # "float"
  THEN Fail(Err("temperature not found in variables", ""), vs, FALSE)
  ELSE IF thr.t # "float"
  THEN Fail(Err("threshold not found in variables", ""), vs, FALSE)
  ELSE LET threshold    == thr.n
           operator     == IF op.t = "string" THEN op.s ELSE "greater_than"
           conditionMet == Compare(operator, temperature.n, threshold)
       IN Result(NoError,
                 Put(vs, "conditionMet", Bool(conditionMet)),
                 TRUE,
                 [conditionMet |-> Bool(conditionMet),
                  threshold    |-> Flt(threshold),
                  operator     |-> Str(operator),
                  actualValue  |-> Flt(temperature.n),
                  message      |-> Str(IF conditionMet
                                       THEN "condition met"
                                       ELSE "condition not met")],
                 FALSE)

processConditionNode(vs) ==
  LET temperature == Get(vs, "temperature")
      thr         == Get(vs, "threshold")
      op          == Get(vs, "operator")
  IN
  IF temperature.t # "float"
  THEN Fail(Err("temperature not found in variables", ""), vs, FALSE)
  ELSE IF thr.t # "float" /\ thr.t # "int"
  THEN Fail(Err("threshold not found in variables", ""), vs, FALSE)
  ELSE LET threshold    == thr.n   \* float64(thresholdInt) keeps the number
           operator     == IF op.t = "string" THEN op.s ELSE "greater_than"
           conditionMet == Compare(operator, temperature.n, threshold)
       IN Result(NoError,
                 Put(vs, "conditionMet", Bool(conditionMet)),
                 TRUE,
                 [conditionMet |-> Bool(conditionMet),
                  threshold    |-> Flt(threshold),
                  operator     |-> Str(operator),
                  actualValue  |-> Flt(temperature.n),
                  message      |-> Str(IF conditionMet
                                       THEN "condition met"
                                       ELSE "condition not met")],
                 FALSE)

\* Variant: city, temperature and email are read before conditionMet is
\* looked at.
processEmailNode_ChecksFirst(vs) ==
  LET conditionMet == Get(vs, "conditionMet")
      city         == Get(vs, "city")
      temperature  == Get(vs, "temperature")
      email        == Get(vs, "email")
  IN
  IF city.t # "string"
  THEN Fail(Err("city not found in variables", ""), vs, FALSE)
  ELSE IF temperature.t # "float"
  THEN Fail(Err("temperature not found in variables", ""), vs, FALSE)
  ELSE IF email.t # "string"
  THEN Fail(Err("email not found in variables", ""), vs, FALSE)
  ELSE IF conditionMet.t # "bool" \/ ~conditionMet.b
  THEN Result(NoError, vs, TRUE,
              [emailSent |-> Bool(FALSE),
               message   |-> Str("Condition not met, no email sent")],
              FALSE)
  ELSE Result(NoError, vs, TRUE,
              [emailDraft_to      |-> Str(email.s),
               emailDraft_from    |-> Str("weather-alerts@example.com"),
               emailDraft_subject |-> Str("Weather Alert"),
               emailDraft_body_city        |-> Str(city.s),
               emailDraft_body_temperature |-> Flt(temperature.n),
               deliveryStatus     |-> Str("sent"),
               messageId          |-> Str("msg_<timestamp>"),
               emailSent          |-> Bool(TRUE)],
              FALSE)

\* Variant: the email address is not required; the draft goes to "".
processEmailNode_NoEmailCheck(vs) ==
  LET conditionMet == Get(vs, "conditionMet")
      city         == Get(vs, "city")
      temperature  == Get(vs, "temperature")
      email        == Get(vs, "email")
  IN
  IF conditionMet.t # "bool" \/ ~conditionMet.b
  THEN Result(NoError, vs, TRUE,
              [emailSent |-> Bool(FALSE),
               message   |-> Str("Condition not met, no email sent")],
              FALSE)
  ELSE IF city.t # "string"
  THEN Fail(Err("city not found in variables", ""), vs, FALSE)
  ELSE IF temperature.t # "float"
  THEN Fail(Err("temperature not found in variables", ""), vs, FALSE)
  ELSE Result(NoError, vs, TRUE,
              [emailDraft_to      |-> Str(email.s),
               emailDraft_from    |-> Str("weather-alerts@example.com"),
               emailDraft_subject |-> Str("Weather Alert"),
               emailDraft_body_city        |-> Str(city.s),
               emailDraft_body_temperature |-> Flt(temperature.n),
               deliveryStatus     |-> Str("sent"),
               messageId          |-> Str("msg_<timestamp>"),
               emailSent          |-> Bool(TRUE)],
              FALSE)

processEmailNode(vs) ==
  LET conditionMet == Get(vs, "conditionMet")
      city         == Get(vs, "city")
      temperature  == Get(vs, "temperature")
      email        == Get(vs, "email")
  IN
  IF conditionMet.t # "bool" \/ ~conditionMet.b
  THEN Result(NoError, vs, TRUE,
              [emailSent |-> Bool(FALSE),
               message   |-> Str("Condition not met, no email sent")],
              FALSE)
  ELSE IF city.t # "string"
  THEN Fail(Err("city not found in variables", ""), vs, FALSE)
  ELSE IF temperature.t # "float"
  THEN Fail(Err("temperature not found in variables", ""), vs, FALSE)
  ELSE IF email.t # "string"
  THEN Fail(Err("email not found in variables", ""), vs, FALSE)
  ELSE Result(NoError, vs, TRUE,
              [emailDraft_to      |-> Str(email.s),
               emailDraft_from    |-> Str("weather-alerts@example.com"),
               emailDraft_subject |-> Str("Weather Alert"),
               emailDraft_body_city        |-> Str(city.s),
               emailDraft_body_temperature |-> Flt(temperature.n),
               deliveryStatus     |-> Str("sent"),
               messageId          |-> Str("msg_<timestamp>"),
               emailSent          |-> Bool(TRUE)],
              FALSE)

\* Variant: the switch has no default case, so a node of another type is
\* passed over like a start node.
Dispatch_NoDefault(node, vs, fetch) ==
  CASE node.type = "form"        -> processFormNode(node, vs)
    [] node.type = "integration" -> processIntegrationNode(node, vs, fetch)
    [] node.type = "condition"   -> processConditionNode(vs)
    [] node.type = "email"       -> processEmailNode(vs)
    [] OTHER -> Result(NoError, vs, FALSE, EmptyMap, FALSE)

\* Variant: the email behaviour resets conditionMet once the alert is sent.
Dispatch_EmailConsumesFlag(node, vs, fetch) ==
  CASE node.type = "start"       -> Result(NoError, vs, FALSE, EmptyMap, FALSE)
    [] node.type = "form"        -> processFormNode(node, vs)
    [] node.type = "integration" -> processIntegrationNode(node, vs, fetch)
    [] node.type = "condition"   -> processConditionNode(vs)
    [] node.type = "email"       ->
         [processEmailNode(vs) EXCEPT
            !.vars = IF processEmailNode(vs).err = NoError
                     THEN Put(vs, "conditionMet", Bool(FALSE)) ELSE vs]
    [] node.type = "end"         -> Result(NoError, vs, FALSE, EmptyMap, FALSE)
    [] OTHER -> Fail(Err("Unknown node type", node.type), vs, FALSE)

\* The switch on current.Type.
Dispatch(node, vs, fetch) ==
  CASE node.type = "start"       -> Result(NoError, vs, FALSE, EmptyMap, FALSE)
    [] node.type = "form"        -> processFormNode(node, vs)
    [] node.type = "integration" -> processIntegrationNode(node, vs, fetch)
    [] node.type = "condition"   -> processConditionNode(vs)
    [] node.type = "email"       -> processEmailNode(vs)
    [] node.type = "end"         -> Result(NoError, vs, FALSE, EmptyMap, FALSE)
    [] OTHER -> Fail(Err("Unknown node type", node.type), vs, FALSE)

-----------------------------------------------------------------------------
(* Graph helpers *)

\* Index of the first node of the given type, 0 for nil.
RECURSIVE findNodeFrom(_, _, _)
findNodeFrom(nodes, nodeType, i) ==
  IF i > Len(nodes) THEN 0
  ELSE IF nodes[i].type = nodeType THEN i
  ELSE findNodeFrom(nodes, nodeType, i + 1)

\* Variant: falls back to the first node when no node has the type.
findNodeByType_FirstNode(nodes, nodeType) ==
  IF findNodeFrom(nodes, nodeType, 1) = 0 THEN 1
  ELSE findNodeFrom(nodes, nodeType, 1)

\* Variant: the loop does not return at the first node of the type, so the
\* last one wins.
findNodeByType_LastOfType(nodes, nodeType) ==
  LET hits == {i \in 1..Len(nodes) : nodes[i].type = nodeType} IN
  IF hits = {} THEN 0 ELSE CHOOSE i \in hits : \A j \in hits : j <= i

findNodeByType(nodes, nodeType) == findNodeFrom(nodes, nodeType, 1)

\* Variant: the else branch for an empty sourceHandle is missing.
EdgeTaken_NoUnconditional(edge, vs) ==
  LET conditionMet == Get(vs, "conditionMet") IN
  /\ conditionMet.t = "bool"
  /\ \/ edge.sourceHandle = "true" /\ conditionMet.b
     \/ edge.sourceHandle = "false" /\ ~conditionMet.b

\* Variant: the ok of the type assertion is ignored, so a missing
\* conditionMet reads as the zero value false.
EdgeTaken_ZeroValue(edge, vs) ==
  IF edge.sourceHandle # ""
  THEN LET conditionMet == Get(vs, "conditionMet") IN
       \/ edge.sourceHandle = "true" /\ conditionMet.b
       \/ edge.sourceHandle = "false" /\ ~conditionMet.b
  ELSE TRUE

\* Variant: a sourceHandle other than "true" and "false" is treated like an
\* empty one.
EdgeTaken_UnknownTagMatches(edge, vs) ==
  IF edge.sourceHandle \in {"true", "false"}
  THEN LET conditionMet == Get(vs, "conditionMet") IN
       /\ conditionMet.t = "bool"
       /\ \/ edge.sourceHandle = "true" /\ conditionMet.b
          \/ edge.sourceHandle = "false" /\ ~conditionMet.b
  ELSE TRUE

\* An edge with a non-empty sourceHandle is taken only when conditionMet is
\* a bool and the handle names its value.
EdgeTaken(edge, vs) ==
  IF edge.sourceHandle # ""
  THEN LET conditionMet == Get(vs, "conditionMet") IN
       /\ conditionMet.t = "bool"
       /\ \/ edge.sourceHandle = "true" /\ conditionMet.b
          \/ edge.sourceHandle = "false" /\ ~conditionMet.b
  ELSE TRUE

\* Target of the first edge, in slice order, that leaves currentNodeID and
\* is taken; "" when there is none.
RECURSIVE findNextFrom(_, _, _, _)
findNextFrom(edges, currentNodeID, vs, i) ==
  IF i > Len(edges) THEN ""
  ELSE IF edges[i].source = currentNodeID /\ EdgeTaken(edges[i], vs)
       THEN edges[i].target
       ELSE findNextFrom(edges, currentNodeID, vs, i + 1)

\* Variant: the loop does not return at the first taken edge, so the last
\* taken edge wins.
RECURSIVE findLastFrom(_, _, _, _)
findLastFrom(edges, currentNodeID, vs, i) ==
  IF i < 1 THEN ""
  ELSE IF edges[i].source = currentNodeID /\ EdgeTaken(edges[i], vs)
       THEN edges[i].target
       ELSE findLastFrom(edges, currentNodeID, vs, i - 1)

findNextNodeID_LastMatch(edges, currentNodeID, vs) ==
  findLastFrom(edges, currentNodeID, vs, Len(edges))

findNextNodeID(edges, currentNodeID, vs) ==
  findNextFrom(edges, currentNodeID, vs, 1)

\* nodeMap[id]: the loop assigns nodeMap[nodes[i].ID] = &nodes[i] in slice
\* order, so the last node with the id wins; 0 when the key is missing.
nodeMap(nodes, id) ==
  LET hits == {i \in 1..Len(nodes) : nodes[i].id = id} IN
  IF hits = {} THEN 0 ELSE CHOOSE i \in hits : \A j \in hits : j <= i

-----------------------------------------------------------------------------
(* The workflows and inputs Execute is run on *)

NoList == [shape |-> "absent", items |-> <<>>]
NoMeta == [inputFields |-> NoList, options |-> NoList]

Opt(city, lat, lon) ==
  [isMap |-> TRUE, city |-> Str(city), lat |-> Flt(lat), lon |-> Flt(lon)]

Kind(type, label, descr, meta) ==
  [type |-> type, label |-> label, description |-> descr, metadata |-> meta]

KStart == Kind("start", "Start", "Begin weather check workflow", NoMeta)
KEnd   == Kind("end", "Complete", "Workflow completed successfully", NoMeta)
KCond  == Kind("condition", "Check Condition", "Evaluate temperature threshold", NoMeta)
KEmail == Kind("email", "Send Alert", "Email weather alert notification", NoMeta)
KOther == Kind("webhook", "Webhook", "", NoMeta)
KForm  == Kind("form", "User Input", "Collect user data",
               [NoMeta EXCEPT !.inputFields =
                  [shape |-> "list", items |-> <<Str("name"), Str("email")>>]])
KInteg == Kind("integration", "Weather API", "Fetch current temperature",
               [NoMeta EXCEPT !.options =
                  [shape |-> "list",
                   items |-> <<Opt("Sydney", -34, 151),
                               Opt("Melbourne", -38, 145)>>]])

\* Form nodes whose inputFields is missing, is not a list, or holds a
\* non-string element; integration nodes whose options are missing or hold
\* the (0,0) coordinates.
KFormNoFields  == Kind("form", "User Input", "Collect user data", NoMeta)
KFormNotList   == Kind("form", "User Input", "Collect user data",
                       [NoMeta EXCEPT !.inputFields =
                          [shape |-> "other", items |-> <<>>]])
KFormMixed     == Kind("form", "User Input", "Collect user data",
                       [NoMeta EXCEPT !.inputFields =
                          [shape |-> "list",
                           items |-> <<IntV(7), Str("name")>>]])
KIntegNoOpts   == Kind("integration", "Weather API", "Fetch current temperature", NoMeta)
KIntegZero     == Kind("integration", "Weather API", "Fetch current temperature",
                       [NoMeta EXCEPT !.options =
                          [shape |-> "list",
                           items |-> <<Opt("Sydney", 0, 0)>>]])

\* A type that differs from a known one only in case.
KMiscased == Kind("Email", "Send Alert", "Email weather alert notification",
                  NoMeta)

WalkKinds  == {KStart, KEnd, KCond, KOther}
ChainKinds == {KStart, KEnd, KCond, KEmail, KOther, KForm, KInteg,
               KFormNoFields, KFormNotList, KFormMixed, KIntegNoOpts,
               KIntegZero, KMiscased}

IdSeq == <<"n1", "n2", "n3", "n4", "n5", "n6">>

Node(i, k) ==
  [id |-> IdSeq[i], type |-> k.type, label |-> k.label,
   description |-> k.description, metadata |-> k.metadata]

Edge(src, tgt, handle) ==
  [source |-> src, target |-> tgt, sourceHandle |-> handle]

\* Node slices of 1..MaxNodes nodes with distinct ids, any kind at any place.
NodeLists ==
  UNION {{[i \in 1..n |-> Node(i, ks[i])] : ks \in [1..n -> WalkKinds]} :
         n \in 1..MaxNodes}

\* The edges a slice is drawn from: edges between the first nodes, forward
\* and backward, with every kind of handle.  An edge to n3 is a broken edge
\* in a workflow of fewer than three nodes.
EdgePool ==
  {Edge("n1", "n2", ""), Edge("n1", "n2", "true"), Edge("n1", "n3", "false"),
   Edge("n1", "n3", "maybe"), Edge("n2", "n1", "")}

\* Edge slices of at most MaxEdges distinct edges, in every order.
EdgeLists ==
  UNION {{s \in [1..n -> EdgePool] :
            \A i, j \in 1..n : i < j => s[i] # s[j]} : n \in 0..MaxEdges}

\* No variables; conditionMet seeded true where the condition node computes
\* false; conditionMet seeded false where it computes true.
WalkInputs ==
  {EmptyMap,
   [temperature |-> Flt(30), threshold |-> IntV(25),
    operator |-> Str("less_than"), conditionMet |-> Bool(TRUE)],
   [temperature |-> Flt(30), threshold |-> Flt(25),
    conditionMet |-> Bool(FALSE)]}

\* start -> end, and start -> X -> end with every kind of node X; both run
\* with every combination of present, missing and mistyped variables.
ChainWorkflows ==
  {[nodes |-> <<Node(1, KStart), Node(2, KEnd)>>,
    edges |-> <<Edge("n1", "n2", "")>>]} \cup
  {[nodes |-> <<Node(1, KStart), Node(2, k), Node(3, KEnd)>>,
    edges |-> <<Edge("n1", "n2", ""), Edge("n2", "n3", "")>>] :
   k \in ChainKinds}

ChainInputs ==
  {MapOf(f) :
   f \in [name         : {Absent, Str("John Doe")},
          email        : {Absent, Str("john@example.com")},
          city         : {Absent, Str("Sydney"), Str("Atlantis")},
          temperature  : {Absent, Flt(30), Str("hot")},
          threshold    : {Absent, Flt(25), IntV(25)},
          operator     : {Absent, Str("less_than"), Str("bogus")},
          conditionMet : {Absent, Bool(TRUE), Bool(FALSE)}]}

\* start -> X -> end
Chain(k) ==
  [nodes |-> <<Node(1, KStart), Node(2, k), Node(3, KEnd)>>,
   edges |-> <<Edge("n1", "n2", ""), Edge("n2", "n3", "")>>]

\* The condition node on temperatures below, at and above the threshold,
\* with every operator, an unknown one, a non-string one and none, and
\* with a threshold that is no number.
Operators ==
  {"greater_than", "less_than", "equals", "greater_than_or_equal",
   "less_than_or_equal"}

CondInputs ==
  {MapOf(f) :
   f \in [temperature : {Flt(20), Flt(25), Flt(30)},
          threshold   : {Flt(25), IntV(25), Str("high")},
          operator    : {Absent, IntV(1), Str("bogus")} \cup
                        {Str(o) : o \in Operators}]}

\* An options list whose first entries are not a map, carry an integer
\* latitude, or carry the (0,0) coordinates under another city name.
KIntegOdd ==
  Kind("integration", "Weather API", "Fetch current temperature",
       [NoMeta EXCEPT !.options =
          [shape |-> "list",
           items |-> <<[isMap |-> FALSE, city |-> Str("Sydney"),
                        lat |-> Flt(-34), lon |-> Flt(151)],
                       [isMap |-> TRUE, city |-> Str("Sydney"),
                        lat |-> IntV(-34), lon |-> Flt(151)],
                       Opt("Perth", 0, 0),
                       Opt("Quito", 0, -78),
                       Opt("Sydney", -34, 151)>>]])

\* The integration node on a city that is not a string, differs in case,
\* or is listed, with and without an earlier temperature.
IntegInputs ==
  {MapOf(f) :
   f \in [city        : {IntV(2000), Str("sydney"), Str("Sydney"),
                         Str("Melbourne"), Str("Perth"), Str("Quito")},
          temperature : {Absent, Flt(99)}]}

\* start -> condition, then the email node on the "true" edge and the end
\* node on the "false" edge, the two edges declared in either order.
BranchWorkflows ==
  {[nodes |-> <<Node(1, KStart), Node(2, KCond), Node(3, KEmail),
                Node(4, KEnd)>>,
    edges |-> <<Edge("n1", "n2", "")>> \o es \o <<Edge("n3", "n4", "")>>] :
   es \in {<<Edge("n2", "n3", "true"), Edge("n2", "n4", "false")>>,
           <<Edge("n2", "n4", "false"), Edge("n2", "n3", "true")>>}}

\* Temperatures on both sides of the threshold, with and without a seeded
\* conditionMet and the variables the email node reads.
BranchInputs ==
  {MapOf(f) :
   f \in [email        : {Absent, Str("john@example.com")},
          city         : {Absent, Str("Sydney")},
          temperature  : {Flt(20), Flt(30)},
          threshold    : {Flt(25)},
          operator     : {Absent, Str("less_than")},
          conditionMet : {Absent, Bool(TRUE), Bool(FALSE)}]}

\* What fetchWeather can return: a reading, a non-200 answer, or a
\* transport error (timeout, cancelled context).
Readings == {20, 30}
FetchOutcomes ==
  {[err |-> NoError, temperature |-> r] : r \in Readings} \cup
  {[err |-> Err("weather API error", ""), temperature |-> 0],
   [err |-> Err("context deadline exceeded", ""), temperature |-> 0]}

\* What httpClient.Do returns for a request whose ctx is done.
CtxCanceled == [err |-> Err("context canceled", ""), temperature |-> 0]

\* Variant: the request is built without ctx, so a cancelled caller still
\* gets an answer.
fetchWeather_IgnoresCtx(done) == FetchOutcomes \cup {CtxCanceled}

\* What a call of fetchWeather can return: only the ctx error once ctx is
\* done; otherwise any outcome, the ctx error being the caller cancelling
\* while the request is in flight.
fetchWeather(done) ==
  IF done THEN {CtxCanceled} ELSE FetchOutcomes \cup {CtxCanceled}

NoFetch == [err |-> Err("no lookup made", ""), temperature |-> 0]

-----------------------------------------------------------------------------
(* Executor.Execute *)

NoResponse == [status |-> "", steps |-> <<>>]

\* The synthetic step returned when the workflow has no start node.
SystemStep ==
  [nodeId |-> "system", type |-> "system", label |-> "System Error",
   description |-> "", status |-> "failed", hasOutput |-> FALSE,
   output |-> EmptyMap, error |-> Err("No start node found in workflow", "")]

\* Variant: the step literal leaves Description out.
MkStep_NoDescription(node, r) ==
  [nodeId |-> node.id, type |-> node.type, label |-> node.label,
   description |-> "",
   status |-> IF r.err # NoError THEN "failed" ELSE "completed",
   hasOutput |-> r.hasOutput, output |-> r.output, error |-> r.err]

\* The step record after the switch: the node's fields, the output the
\* behaviour assigned, and status/error from the returned error.
MkStep(node, r) ==
  [nodeId |-> node.id, type |-> node.type, label |-> node.label,
   description |-> node.description,
   status |-> IF r.err # NoError THEN "failed" ELSE "completed",
   hasOutput |-> r.hasOutput, output |-> r.output, error |-> r.err]

\* Variant: a failing behaviour does not set status.
StatusAfter_Unset(st, r) == st

\* The local `status` after the switch.
StatusAfter(st, r) == IF r.err # NoError THEN "failed" ELSE st

\* Variant: the early return on a failed step is missing.
StepFailed_Never(step) == FALSE

\* if step.Status == "failed" { return ... }
StepFailed(step) == step.status = "failed"

\* Variant: the integration behaviour fills the city into the node's
\* description in place.
NodeAfter_Templated(node, r) ==
  IF node.type = "integration" /\ r.called
  THEN [node EXCEPT !.description = "Fetch current temperature for city"]
  ELSE node

\* The node behind the pointer `current` after the switch: nodeMap holds
\* pointers into the workflow's own Nodes slice and the behaviours are
\* handed that pointer; they only read node.Data.Metadata.
NodeAfter(node, r) == node

\* Variant: a resolved id that is not a key of nodeMap leaves current as
\* it is instead of breaking.
NextNode_StayOnBroken(w, cur, vs) ==
  LET nextID == findNextNodeID(w.edges, w.nodes[cur].id, vs) IN
  IF nextID = "" THEN 0
  ELSE IF nodeMap(w.nodes, nextID) = 0 THEN cur
  ELSE nodeMap(w.nodes, nextID)

\* Variant: the walk stops at a node of type "end" whatever edges leave it.
NextNode_StopsAtEnd(w, cur, vs) ==
  LET nextID == findNextNodeID(w.edges, w.nodes[cur].id, vs) IN
  IF w.nodes[cur].type = "end" \/ nextID = "" THEN 0
  ELSE nodeMap(w.nodes, nextID)

\* Variant: a resolved id that is not a key of nodeMap sends the walk back
\* to the start node.
NextNode_RestartOnBroken(w, cur, vs) ==
  LET nextID == findNextNodeID(w.edges, w.nodes[cur].id, vs) IN
  IF nextID = "" THEN 0
  ELSE IF nodeMap(w.nodes, nextID) = 0 THEN findNodeByType(w.nodes, "start")
  ELSE nodeMap(w.nodes, nextID)

\* The node to continue with after a completed step: 0 (break) when no edge
\* resolves or the resolved id is not a key of nodeMap.
NextNode(w, cur, vs) ==
  LET nextID == findNextNodeID(w.edges, w.nodes[cur].id, vs) IN
  IF nextID = "" THEN 0 ELSE nodeMap(w.nodes, nextID)

\* Execute called directly, with no service around it.
NoService == [pc |-> "off"]

\* A call that has not been made.
IdleCall ==
  [pc |-> "idle", vars |-> EmptyMap, current |-> 0, steps |-> <<>>,
   status |-> "", resp |-> NoResponse, shared |-> FALSE,
   successive |-> FALSE, inputs0 |-> EmptyMap]

Init ==
  /\ \/ /\ wf \in [nodes : NodeLists, edges : EdgeLists]
        /\ inputs \in WalkInputs
     \/ /\ wf \in ChainWorkflows
        /\ inputs \in ChainInputs
     \/ /\ wf = Chain(KCond)
        /\ inputs \in CondInputs
     \/ /\ wf \in {Chain(KInteg), Chain(KIntegOdd)}
        /\ inputs \in IntegInputs
     \/ /\ wf \in BranchWorkflows
        /\ inputs \in BranchInputs
  /\ inputs0 = inputs
  /\ inPlace = FALSE
  /\ pc = "idle"
  /\ vars = EmptyMap
  /\ current = 0
  /\ steps = <<>>
  /\ status = ""
  /\ resp = NoResponse
  /\ dispatched = 0
  /\ lookups = 0
  /\ ctxDone = FALSE
  /\ fetched = NoFetch
  /\ callB = IdleCall
  /\ svc = NoService

\* Entry of Execute up to the loop: the variable map is the caller's map
\* itself or a copy of it, and the walk starts at the first start node or
\* returns the system step.
Begin ==
  /\ pc = "idle"
  /\ \E ip \in BOOLEAN : inPlace' = ip
  /\ vars' = inputs
  /\ steps' = <<>>
  /\ status' = "completed"
  /\ current' = findNodeByType(wf.nodes, "start")
  /\ IF current' = 0
     THEN /\ resp' = [status |-> "failed", steps |-> <<SystemStep>>]
          /\ pc' = "returned"
     ELSE /\ resp' = resp
          /\ pc' = "loop"
  /\ UNCHANGED <<wf, inputs, inputs0, dispatched, lookups, ctxDone, fetched,
                 callB, svc>>

\* One iteration of the loop: dispatch the current node, append its step,
\* return on failure, otherwise advance or break and return.  `recorded`
\* tells whether the model keeps the appended step and the history counts.
Iteration(recorded) ==
  \E fetch \in fetchWeather(ctxDone) :
    LET node == wf.nodes[current]
        r    == Dispatch(node, vars, fetch)
        step == MkStep(node, r)
        st   == StatusAfter(status, r)
        next == IF StepFailed(step) THEN 0 ELSE NextNode(wf, current, r.vars)
    IN /\ vars' = r.vars
       /\ inputs' = IF inPlace THEN r.vars ELSE inputs
       /\ steps' = IF recorded THEN Append(steps, step) ELSE steps
       /\ status' = st
       /\ dispatched' = IF recorded THEN dispatched + 1 ELSE dispatched
       /\ lookups' = IF recorded /\ r.called THEN lookups + 1 ELSE lookups
       /\ ctxDone' = (ctxDone \/ (r.called /\ fetch = CtxCanceled))
       /\ fetched' = IF r.called /\ fetched = NoFetch THEN fetch ELSE fetched
       /\ IF next = 0
          THEN /\ resp' = [status |-> st, steps |-> steps']
               /\ pc' = "returned"
               /\ current' = current
          ELSE /\ resp' = resp
               /\ pc' = "loop"
               /\ current' = next
       /\ wf' = [wf EXCEPT !.nodes[current] = NodeAfter(node, r)]
       /\ UNCHANGED <<inputs0, inPlace, callB, svc>>

Step ==
  /\ pc = "loop"
  /\ Len(steps) < MaxSteps
  /\ Iteration(TRUE)

Next == Begin \/ Step

Spec == Init /\ [][Next]_allVars

\* The iterations after the trace has reached MaxSteps steps: the walk goes
\* on as before, and the model stops recording the steps it appends.
StepBeyond ==
  /\ pc = "loop"
  /\ Len(steps) >= MaxSteps
  /\ Iteration(FALSE)

WalkNext == Begin \/ Step \/ StepBeyond

\* The whole walk, however long.  Execute runs synchronously on the calling
\* goroutine and each lookup returns, fails or times out, so a call that can
\* take another step does take it.
FairSpec == Init /\ [][WalkNext]_allVars /\ WF_allVars(WalkNext)

-----------------------------------------------------------------------------
(* The caller cancels ctx at any moment before the call or between two of   *)
(* its iterations; cancelling while a lookup is in flight is the CtxCanceled *)
(* outcome of that lookup.                                                  *)

Cancel ==
  /\ pc \in {"idle", "loop"}
  /\ ~ctxDone
  /\ ctxDone' = TRUE
  /\ UNCHANGED <<wf, inputs, inputs0, inPlace, pc, vars, current, steps,
                 status, resp, dispatched, lookups, fetched, callB, svc>>

CancelNext == Begin \/ Step \/ Cancel

\* Cancellation is run on the chains start -> X -> end, X of every kind.
CancelInit ==
  /\ Init
  /\ wf \in ChainWorkflows \cup {Chain(KIntegOdd)}

CancelSpec == CancelInit /\ [][CancelNext]_allVars

-----------------------------------------------------------------------------
(* A second Execute call on the same Executor and the same workflow, made   *)
(* while the first call runs or after it has returned.  The Executor holds  *)
(* only its httpClient; what two calls can share is the caller's map.       *)

\* The map the second call's behaviours read and write: the caller's map
\* itself when the call was handed the first call's map and Execute passes
\* it on as it is, otherwise the call's own map.
VarsB == IF inPlace /\ callB.shared THEN inputs ELSE callB.vars

\* Entry of the second call, handed either the map object of the first call
\* or another map with the entries the first call was given.
BeginB ==
  /\ pc \in {"loop", "returned"}
  /\ callB.pc = "idle"
  /\ \E sh \in BOOLEAN :
       LET m     == IF sh THEN inputs ELSE inputs0
           start == findNodeByType(wf.nodes, "start")
       IN callB' =
            [pc         |-> IF start = 0 THEN "returned" ELSE "loop",
             vars       |-> m,
             current    |-> start,
             steps      |-> <<>>,
             status     |-> "completed",
             resp       |-> IF start = 0
                            THEN [status |-> "failed", steps |-> <<SystemStep>>]
                            ELSE NoResponse,
             shared     |-> sh,
             successive |-> (pc = "returned"),
             inputs0    |-> m]
  /\ UNCHANGED <<wf, inputs, inputs0, inPlace, pc, vars, current, steps,
                 status, resp, dispatched, lookups, ctxDone, fetched, svc>>

\* One loop iteration of the second call.  The lookup answers for a location
\* as it answered the first time it was asked.
StepB ==
  /\ callB.pc = "loop"
  /\ Len(callB.steps) < MaxSteps
  /\ \E fetch \in (IF fetched = NoFetch THEN FetchOutcomes ELSE {fetched}) :
       LET node == wf.nodes[callB.current]
           r    == Dispatch(node, VarsB, fetch)
           step == MkStep(node, r)
           st   == StatusAfter(callB.status, r)
           next == IF StepFailed(step) THEN 0
                   ELSE NextNode(wf, callB.current, r.vars)
           tr   == Append(callB.steps, step)
       IN /\ callB' = [callB EXCEPT
                         !.vars    = r.vars,
                         !.steps   = tr,
                         !.status  = st,
                         !.pc      = IF next = 0 THEN "returned" ELSE "loop",
                         !.resp    = IF next = 0
                                     THEN [status |-> st, steps |-> tr] ELSE @,
                         !.current = IF next = 0 THEN @ ELSE next]
          /\ IF inPlace /\ callB.shared
             THEN inputs' = r.vars /\ vars' = r.vars
             ELSE UNCHANGED <<inputs, vars>>
          /\ fetched' = IF r.called /\ fetched = NoFetch THEN fetch ELSE fetched
          /\ wf' = [wf EXCEPT !.nodes[callB.current] = NodeAfter(node, r)]
  /\ UNCHANGED <<inputs0, inPlace, pc, current, steps, status, resp,
                 dispatched, lookups, ctxDone, svc>>

\* Both calls hold the same map and one of them is about to write it while
\* the other runs: an unsynchronised concurrent map access, which the Go
\* runtime may detect and answer by aborting the process.
Fault ==
  /\ pc = "loop"
  /\ callB.pc = "loop"
  /\ inPlace /\ callB.shared
  /\ \E fetch \in FetchOutcomes :
       \/ Dispatch(wf.nodes[current], inputs, fetch).vars # inputs
       \/ Dispatch(wf.nodes[callB.current], inputs, fetch).vars # inputs
  /\ pc' = "crashed"
  /\ callB' = [callB EXCEPT !.pc = "crashed"]
  /\ UNCHANGED <<wf, inputs, inputs0, inPlace, vars, current, steps, status,
                 resp, dispatched, lookups, ctxDone, fetched, svc>>

TwoCallNext == Begin \/ Step \/ BeginB \/ StepB \/ Fault

\* Two calls are run on every workflow, with the inputs that make the
\* branches, the condition node and the integration node behave in each of
\* their ways.
TwoCallInit ==
  /\ Init
  /\ inputs \in WalkInputs \cup CondInputs \cup IntegInputs

TwoCallSpec == TwoCallInit /\ [][TwoCallNext]_allVars

-----------------------------------------------------------------------------
(* The persistence document.  Repository.SaveWorkflow stores                *)
(* json.Marshal(wf.Definition) in the workflows row and GetWorkflow reads   *)
(* the row back with json.Unmarshal.  A document value keeps a number's     *)
(* value but not the Go type it had; Unmarshal into interface{} gives       *)
(* float64 for every number and []interface{} for every array.             *)

\* A JSON number.
Num(x) == [t |-> "number", s |-> "", n |-> x, b |-> FALSE]

\* json.Marshal of an interface{} value.
MarshalValue(v) == IF v.t \in {"int", "float"} THEN Num(v.n) ELSE v

\* Variant: a number without fraction is read back as an int.
UnmarshalValue_WholeAsInt(j) == IF j.t = "number" THEN IntV(j.n) ELSE j

\* json.Unmarshal into an interface{}.
UnmarshalValue(j) == IF j.t = "number" THEN Flt(j.n) ELSE j

\* A metadata list in the document: a Go slice of any element type is an
\* array; a missing key stays missing and a value that is no slice stays
\* what it is.
MarshalShape(shape) == IF shape \in {"list", "typed"} THEN "array" ELSE shape
UnmarshalShape(shape) == IF shape = "array" THEN "list" ELSE shape

MarshalOption(o) ==
  [isMap |-> o.isMap, city |-> MarshalValue(o.city),
   lat |-> MarshalValue(o.lat), lon |-> MarshalValue(o.lon)]

UnmarshalOption(o) ==
  [isMap |-> o.isMap, city |-> UnmarshalValue(o.city),
   lat |-> UnmarshalValue(o.lat), lon |-> UnmarshalValue(o.lon)]

MarshalMetadata(m) ==
  [inputFields |->
     [shape |-> MarshalShape(m.inputFields.shape),
      items |-> [i \in 1..Len(m.inputFields.items) |->
                   MarshalValue(m.inputFields.items[i])]],
   options |->
     [shape |-> MarshalShape(m.options.shape),
      items |-> [i \in 1..Len(m.options.items) |->
                   MarshalOption(m.options.items[i])]]]

UnmarshalMetadata(m) ==
  [inputFields |->
     [shape |-> UnmarshalShape(m.inputFields.shape),
      items |-> [i \in 1..Len(m.inputFields.items) |->
                   UnmarshalValue(m.inputFields.items[i])]],
   options |->
     [shape |-> UnmarshalShape(m.options.shape),
      items |-> [i \in 1..Len(m.options.items) |->
                   UnmarshalOption(m.options.items[i])]]]

MarshalNode(node) == [node EXCEPT !.metadata = MarshalMetadata(@)]
UnmarshalNode(node) == [node EXCEPT !.metadata = UnmarshalMetadata(@)]

\* `json:"sourceHandle,omitempty"`: an empty handle is left out of the
\* document, and a field the document lacks is read as the zero value.
MarshalEdge(edge) ==
  [edge EXCEPT !.sourceHandle = IF @ = "" THEN Absent ELSE Str(@)]
UnmarshalEdge(edge) ==
  [edge EXCEPT !.sourceHandle = IF @.t = "string" THEN @.s ELSE ""]

\* json.Marshal(wf.Definition)
Marshal(g) ==
  [nodes |-> [i \in 1..Len(g.nodes) |-> MarshalNode(g.nodes[i])],
   edges |-> [i \in 1..Len(g.edges) |-> MarshalEdge(g.edges[i])]]

\* json.Unmarshal(def, &wf.Definition)
Unmarshal(d) ==
  [nodes |-> [i \in 1..Len(d.nodes) |-> UnmarshalNode(d.nodes[i])],
   edges |-> [i \in 1..Len(d.edges) |-> UnmarshalEdge(d.edges[i])]]

EmptyGraph == [nodes |-> <<>>, edges |-> <<>>]

\* The workflows table: no row for the id, or the row's definition column.
NoRow == [exists |-> FALSE, doc |-> Marshal(EmptyGraph)]
Row(doc) == [exists |-> TRUE, doc |-> doc]

\* Repository.GetWorkflow: Scan fails when the id names no row or the
\* database does not answer; otherwise the definition is decoded.
GetWorkflow(row, known, dbOk) ==
  IF known /\ row.exists /\ dbOk
  THEN [err |-> FALSE, graph |-> Unmarshal(row.doc)]
  ELSE [err |-> TRUE, graph |-> EmptyGraph]

\* Variant: the upsert writes the nodes and leaves the edges of the row.
SaveWorkflow_NodesOnly(row, g, dbOk) ==
  IF dbOk
  THEN [err |-> FALSE,
        row |-> Row([nodes |-> Marshal(g).nodes, edges |-> row.doc.edges])]
  ELSE [err |-> TRUE, row |-> row]

\* Repository.SaveWorkflow: the upsert replaces the row's definition by the
\* encoded graph, or fails and leaves the row as it is.
SaveWorkflow(row, g, dbOk) ==
  IF dbOk THEN [err |-> FALSE, row |-> Row(Marshal(g))]
  ELSE [err |-> TRUE, row |-> row]

-----------------------------------------------------------------------------
(* Service.HandleExecuteWorkflow: POST /workflows/{id}/execute              *)

\* Go literals as seedSampleWorkflow writes them: inputFields a []string and
\* options a []map[string]interface{}, which are not []interface{}; and an
\* option whose latitude is an untyped integer constant.
KFormTyped ==
  Kind("form", "User Input", "Collect user data",
       [NoMeta EXCEPT !.inputFields =
          [shape |-> "typed", items |-> <<Str("name"), Str("email")>>]])
KIntegTyped ==
  Kind("integration", "Weather API", "Fetch current temperature",
       [NoMeta EXCEPT !.options =
          [shape |-> "typed",
           items |-> <<Opt("Sydney", -34, 151), Opt("Melbourne", -38, 145)>>]])
KIntegIntLat ==
  Kind("integration", "Weather API", "Fetch current temperature",
       [NoMeta EXCEPT !.options =
          [shape |-> "list",
           items |-> <<[isMap |-> TRUE, city |-> Str("Sydney"),
                        lat |-> IntV(-34), lon |-> Flt(151)]>>]])

\* The graph literals a row is seeded from.
SeedGraphs ==
  {Chain(k) : k \in {KCond, KForm, KInteg, KFormNotList, KFormMixed,
                     KFormTyped, KIntegTyped, KIntegIntLat}}

\* The definitions a request can carry, as they are in its body.
BodyDefinitions ==
  {Marshal(g) : g \in {Chain(KEmail), Chain(KForm)} \cup
                      {w \in BranchWorkflows :
                         w.edges[2].sourceHandle = "true"}}

\* The formData and condition objects of a request body.
BodyFormData ==
  {EmptyMap,
   [name |-> Str("John Doe"), email |-> Str("john@example.com"),
    city |-> Str("Sydney")],
   [city |-> Str("Sydney"), temperature |-> Num(30),
    conditionMet |-> Bool(TRUE)]}

BodyConditions ==
  {MapOf(f) :
   f \in [operator  : {Absent, Str("less_than"), Num(1)},
          threshold : {Absent, Num(25), Str("25"), Str("high"),
                       Bool(TRUE)}]}

\* A field of the body that may be left out.
Given(x) == [present |-> TRUE, is |-> x]
Missing(x) == [present |-> FALSE, is |-> x]

\* A body json.Unmarshal rejects, and the bodies it accepts.
BadBody ==
  [parses |-> FALSE, formData |-> EmptyMap, condition |-> Missing(EmptyMap),
   workflowDefinition |-> Missing(Marshal(EmptyGraph))]

Bodies ==
  {BadBody} \cup
  [parses             : {TRUE},
   formData           : BodyFormData,
   condition          : {Missing(EmptyMap)} \cup
                        {Given(c) : c \in BodyConditions},
   workflowDefinition : {Missing(Marshal(EmptyGraph))} \cup
                        {Given(d) : d \in BodyDefinitions}]

\* A request: whether its {id} names the stored row, and its body.
Requests == [known : BOOLEAN, body : Bodies]

\* json.Unmarshal(body, &execReq)
ExecutionRequest(body) ==
  [formData  |-> [k \in DOMAIN body.formData |->
                    UnmarshalValue(body.formData[k])],
   condition |-> [present |-> body.condition.present,
                  is |-> [k \in DOMAIN body.condition.is |->
                            UnmarshalValue(body.condition.is[k])]],
   workflowDefinition |->
     [present |-> body.workflowDefinition.present,
      is |-> Unmarshal(body.workflowDefinition.is)]]

\* strconv.ParseFloat(v, 64) on the strings a request carries.
Numerals == {"20", "25", "30"}
ParseFloat(str) ==
  IF str \in Numerals
  THEN [ok |-> TRUE,
        f |-> CASE str = "20" -> 20 [] str = "25" -> 25 [] str = "30" -> 30]
  ELSE [ok |-> FALSE, f |-> 0]

\* The inputs map the handler builds: the form data, the operator when it
\* is a string, and the threshold, which the later handler source turns
\* into a float64 or rejects and the earlier one copies as it is.
BuildInputs(req, normalises) ==
  LET c      == req.condition
      op     == IF c.present THEN Get(c.is, "operator") ELSE Absent
      withOp == IF op.t = "string" THEN Put(req.formData, "operator", op)
                ELSE req.formData
      th     == IF c.present THEN Get(c.is, "threshold") ELSE Absent
      ok(m)  == [ok |-> TRUE, inputs |-> m, message |-> ""]
      no(t)  == [ok |-> FALSE, inputs |-> withOp, message |-> t]
  IN IF ~c.present \/ ~Has(c.is, "threshold") THEN ok(withOp)
     ELSE IF ~normalises THEN ok(Put(withOp, "threshold", th))
     ELSE CASE th.t = "float"  -> ok(Put(withOp, "threshold", th))
            [] th.t = "int"    -> ok(Put(withOp, "threshold", Flt(th.n)))
            [] th.t = "string" ->
                 IF ParseFloat(th.s).ok
                 THEN ok(Put(withOp, "threshold", Flt(ParseFloat(th.s).f)))
                 ELSE no("Invalid threshold value")
            [] OTHER           -> no("Invalid threshold type")

\* http.Error(w, message, code); return
Reject(s, code, message) ==
  [s EXCEPT !.pc = "done", !.code = code, !.message = message]

\* A second request on the same id, not yet read: the handler's locals and
\* its answer, as for the first.
Waiting ==
  [pc         |-> "listening",
   row        |-> NoRow,
   seed       |-> EmptyGraph,
   request    |-> [known |-> FALSE, body |-> BadBody],
   execReq    |-> ExecutionRequest(BadBody),
   workflow   |-> EmptyGraph,
   loaded     |-> EmptyGraph,
   ran        |-> EmptyGraph,
   got        |-> FALSE,
   getErr     |-> FALSE,
   saveErr    |-> FALSE,
   normalises |-> FALSE,
   log        |-> <<>>,
   code       |-> 0,
   message    |-> "",
   result     |-> NoResponse]

\* The service before the table is seeded.
Booting ==
  [pc         |-> "boot",
   row        |-> NoRow,
   seed       |-> EmptyGraph,
   request    |-> [known |-> FALSE, body |-> BadBody],
   execReq    |-> ExecutionRequest(BadBody),
   workflow   |-> EmptyGraph,
   loaded     |-> EmptyGraph,
   ran        |-> EmptyGraph,
   got        |-> FALSE,
   getErr     |-> FALSE,
   saveErr    |-> FALSE,
   normalises |-> FALSE,
   log        |-> <<>>,
   code       |-> 0,
   message    |-> "",
   result     |-> NoResponse,
   other      |-> Waiting]

ServiceInit ==
  /\ svc = Booting
  /\ wf = EmptyGraph
  /\ inputs = EmptyMap
  /\ inputs0 = EmptyMap
  /\ inPlace = FALSE
  /\ pc = "uncalled"
  /\ vars = EmptyMap
  /\ current = 0
  /\ steps = <<>>
  /\ status = ""
  /\ resp = NoResponse
  /\ dispatched = 0
  /\ lookups = 0
  /\ ctxDone = FALSE
  /\ fetched = NoFetch
  /\ callB = IdleCall

\* The service after the graph literal g is marshalled and inserted.
Seeded(s, g) ==
  [s EXCEPT !.pc = "listening", !.seed = g, !.row = Row(Marshal(g))]

seedSampleWorkflow ==
  /\ svc.pc = "boot"
  /\ \E g \in SeedGraphs : svc' = Seeded(svc, g)
  /\ UNCHANGED <<wf, inputs, inputs0, inPlace, pc, vars, current, steps,
                 status, resp, dispatched, lookups, ctxDone, fetched, callB>>

\* The handler after the body of request rq is read and parsed: 400, or on
\* to the lookup with the decoded request.
Received(s, rq) ==
  IF rq.body.parses
  THEN [s EXCEPT !.pc = "parsed", !.request = rq,
                 !.execReq = ExecutionRequest(rq.body)]
  ELSE [Reject(s, 400, "Invalid request format") EXCEPT !.request = rq]

\* A request arrives.
ReadRequest ==
  /\ svc.pc = "listening"
  /\ \E rq \in Requests : svc' = Received(svc, rq)
  /\ UNCHANGED <<wf, inputs, inputs0, inPlace, pc, vars, current, steps,
                 status, resp, dispatched, lookups, ctxDone, fetched, callB>>

\* Variant: a failed lookup is logged and the handler goes on with an empty
\* workflow.
AfterLookup_Continues(s, r) ==
  [s EXCEPT !.pc = "loaded", !.workflow = r.graph, !.loaded = r.graph,
            !.got = ~r.err, !.getErr = r.err]

\* workflow, err := s.repo.GetWorkflow(ctx, id); if err != nil { 404 }
AfterLookup(s, r) ==
  IF r.err
  THEN [Reject(s, 404, "Workflow not found") EXCEPT !.getErr = TRUE]
  ELSE [s EXCEPT !.pc = "loaded", !.workflow = r.graph, !.loaded = r.graph,
                 !.got = TRUE]

LoadWorkflow ==
  /\ svc.pc = "parsed"
  /\ \E dbOk \in BOOLEAN :
       svc' = AfterLookup([svc EXCEPT !.log = Append(@, "GetWorkflow")],
                          GetWorkflow(svc.row, svc.request.known, dbOk))
  /\ UNCHANGED <<wf, inputs, inputs0, inPlace, pc, vars, current, steps,
                 status, resp, dispatched, lookups, ctxDone, fetched, callB>>

\* Variant: a failed save is answered with an error.
AfterSave_Aborts(s, g, sv) ==
  IF sv.err
  THEN [Reject(s, 500, "Internal server error") EXCEPT !.saveErr = TRUE]
  ELSE [s EXCEPT !.pc = "ready", !.workflow = g, !.row = sv.row]

\* Variant: the supplied definition is saved and the loaded one is run.
AfterSave_RunsStored(s, g, sv) ==
  [s EXCEPT !.pc = "ready", !.row = sv.row, !.saveErr = sv.err]

\* workflow.Definition = *execReq.WorkflowDefinition; a failed save is
\* logged and nothing else.
AfterSave(s, g, sv) ==
  [s EXCEPT !.pc = "ready", !.workflow = g, !.row = sv.row,
            !.saveErr = sv.err]

OverrideDefinition ==
  /\ svc.pc = "loaded"
  /\ IF svc.execReq.workflowDefinition.present
     THEN \E dbOk \in BOOLEAN :
            LET g == svc.execReq.workflowDefinition.is IN
            svc' = AfterSave([svc EXCEPT !.log = Append(@, "SaveWorkflow")],
                             g, SaveWorkflow(svc.row, g, dbOk))
     ELSE svc' = [svc EXCEPT !.pc = "ready"]
  /\ UNCHANGED <<wf, inputs, inputs0, inPlace, pc, vars, current, steps,
                 status, resp, dispatched, lookups, ctxDone, fetched, callB>>

\* The inputs are built and Execute is called, or the threshold is rejected.
InvokeExecute ==
  /\ svc.pc = "ready"
  /\ \E nm \in BOOLEAN :
       LET built == BuildInputs(svc.execReq, nm) IN
       IF built.ok
       THEN /\ svc' = [svc EXCEPT !.pc = "executing", !.normalises = nm,
                                  !.log = Append(@, "Execute"),
                                  !.ran = svc.workflow]
            /\ wf' = svc.workflow
            /\ inputs' = built.inputs
            /\ inputs0' = built.inputs
            /\ pc' = "idle"
       ELSE /\ svc' = [Reject(svc, 400, built.message)
                         EXCEPT !.normalises = nm]
            /\ UNCHANGED <<wf, inputs, inputs0, pc>>
  /\ UNCHANGED <<inPlace, vars, current, steps, status, resp, dispatched,
                 lookups, ctxDone, fetched, callB>>

\* Execute has returned: 200 and the encoded result.
WriteResponse ==
  /\ svc.pc = "executing"
  /\ pc = "returned"
  /\ svc' = [svc EXCEPT !.pc = "done", !.code = 200, !.result = resp]
  /\ UNCHANGED <<wf, inputs, inputs0, inPlace, pc, vars, current, steps,
                 status, resp, dispatched, lookups, ctxDone, fetched, callB>>

ServiceNext ==
  \/ seedSampleWorkflow
  \/ ReadRequest
  \/ LoadWorkflow
  \/ OverrideDefinition
  \/ InvokeExecute
  \/ Begin
  \/ Step
  \/ WriteResponse

ServiceSpec == ServiceInit /\ [][ServiceNext]_allVars

-----------------------------------------------------------------------------
(* Vocabulary of the properties, stated without the walker's operators *)

Last(seq) == seq[Len(seq)]
Min(S) == CHOOSE x \in S : \A y \in S : x <= y

NodeIds(w) == {w.nodes[i].id : i \in 1..Len(w.nodes)}
HasStart(w) == \E i \in 1..Len(w.nodes) : w.nodes[i].type = "start"

\* An edge matches when its branch tag is empty, or is "true"/"false" and
\* conditionMet is the boolean of that name.
Matches(e, vs) ==
  \/ e.sourceHandle = ""
  \/ e.sourceHandle = "true" /\ Get(vs, "conditionMet") = Bool(TRUE)
  \/ e.sourceHandle = "false" /\ Get(vs, "conditionMet") = Bool(FALSE)

MatchSet(edges, id, vs) ==
  {i \in 1..Len(edges) : edges[i].source = id /\ Matches(edges[i], vs)}

\* Target of the first matching edge in declared order, "" if none matches.
FirstMatch(edges, id, vs) ==
  IF MatchSet(edges, id, vs) = {} THEN ""
  ELSE edges[Min(MatchSet(edges, id, vs))].target

\* No successor: no edge matches, or the first match leads to no node.
Unresolvable(w, id, vs) == FirstMatch(w.edges, id, vs) \notin NodeIds(w)

\* What one call returns when it runs alone on workflow w with inputs vs
\* and a lookup that answers f: the walk from the start node, one step per
\* node, up to the first failure or the first node without successor.  A
\* walk longer than MaxSteps has no response here.
RECURSIVE WalkAlone(_, _, _, _, _, _)
WalkAlone(w, cur, vs, tr, st, f) ==
  IF Len(tr) >= MaxSteps THEN NoResponse
  ELSE LET node == w.nodes[cur]
           r    == Dispatch(node, vs, f)
           step == MkStep(node, r)
           st2  == StatusAfter(st, r)
           next == IF StepFailed(step) THEN 0 ELSE NextNode(w, cur, r.vars)
       IN IF next = 0
          THEN [status |-> st2, steps |-> Append(tr, step)]
          ELSE WalkAlone(w, next, r.vars, Append(tr, step), st2, f)

ExecAlone(w, vs, f) ==
  IF findNodeByType(w.nodes, "start") = 0
  THEN [status |-> "failed", steps |-> <<SystemStep>>]
  ELSE WalkAlone(w, findNodeByType(w.nodes, "start"), vs, <<>>,
                 "completed", f)

-----------------------------------------------------------------------------
(* Two HandleExecuteWorkflow requests on the same id, each on its own       *)
(* goroutine.  Each handler has its own execReq, workflow and inputs; what  *)
(* the two share is the workflows row, read and written one statement at a  *)
(* time, and the Executor, which holds only its httpClient.  The second     *)
(* request's Execute therefore runs as one step.                            *)

ConcurrentSeeds == {Chain(KCond), Chain(KFormTyped)}

ConcurrentRequests ==
  [known : {TRUE},
   body  : {BadBody} \cup
           [parses             : {TRUE},
            formData           : {[name |-> Str("John Doe"),
                                   email |-> Str("john@example.com"),
                                   city |-> Str("Sydney"),
                                   temperature |-> Num(30)]},
            condition          : {Missing(EmptyMap),
                                  Given([threshold |-> Str("high")])},
            workflowDefinition : {Missing(Marshal(EmptyGraph)),
                                  Given(Marshal(Chain(KEmail)))} \cup
                                 {Given(Marshal(w)) :
                                    w \in {b \in BranchWorkflows :
                                      b.edges[2].sourceHandle = "true"}}]]

\* The second handler's record with the row as it is now, and the service
\* after a step of the second handler that left record s.
Other == [svc.other EXCEPT !.row = svc.row]
WithOther(s) ==
  [svc EXCEPT !.row = s.row, !.other = [s EXCEPT !.row = NoRow]]

ReadRequestB ==
  /\ svc.pc # "boot"
  /\ svc.other.pc = "listening"
  /\ \E rq \in ConcurrentRequests :
       svc' = [svc EXCEPT !.other = Received(@, rq)]
  /\ UNCHANGED <<wf, inputs, inputs0, inPlace, pc, vars, current, steps,
                 status, resp, dispatched, lookups, ctxDone, fetched, callB>>

LoadWorkflowB ==
  /\ svc.other.pc = "parsed"
  /\ \E dbOk \in BOOLEAN :
       svc' = WithOther(
                AfterLookup([Other EXCEPT !.log = Append(@, "GetWorkflow")],
                            GetWorkflow(svc.row, svc.other.request.known,
                                        dbOk)))
  /\ UNCHANGED <<wf, inputs, inputs0, inPlace, pc, vars, current, steps,
                 status, resp, dispatched, lookups, ctxDone, fetched, callB>>

OverrideDefinitionB ==
  /\ svc.other.pc = "loaded"
  /\ IF svc.other.execReq.workflowDefinition.present
     THEN \E dbOk \in BOOLEAN :
            LET g == svc.other.execReq.workflowDefinition.is IN
            svc' = WithOther(
                     AfterSave([Other EXCEPT !.log = Append(@, "SaveWorkflow")],
                               g, SaveWorkflow(svc.row, g, dbOk)))
     ELSE svc' = [svc EXCEPT !.other.pc = "ready"]
  /\ UNCHANGED <<wf, inputs, inputs0, inPlace, pc, vars, current, steps,
                 status, resp, dispatched, lookups, ctxDone, fetched, callB>>

\* The second handler builds its inputs and is rejected, or calls Execute
\* on its own workflow and answers with the result.
ExecuteB ==
  /\ svc.other.pc = "ready"
  /\ \E nm \in BOOLEAN, f \in FetchOutcomes :
       LET built == BuildInputs(svc.other.execReq, nm) IN
       svc' = [svc EXCEPT !.other =
                 IF built.ok
                 THEN [@ EXCEPT !.pc = "done", !.normalises = nm,
                                !.log = Append(@, "Execute"),
                                !.ran = svc.other.workflow,
                                !.code = 200,
                                !.result = ExecAlone(svc.other.workflow,
                                                     built.inputs, f)]
                 ELSE [Reject(@, 400, built.message)
                         EXCEPT !.normalises = nm]]
  /\ UNCHANGED <<wf, inputs, inputs0, inPlace, pc, vars, current, steps,
                 status, resp, dispatched, lookups, ctxDone, fetched, callB>>

SeedConcurrent ==
  /\ svc.pc = "boot"
  /\ \E g \in ConcurrentSeeds : svc' = Seeded(svc, g)
  /\ UNCHANGED <<wf, inputs, inputs0, inPlace, pc, vars, current, steps,
                 status, resp, dispatched, lookups, ctxDone, fetched, callB>>

ReadRequestA ==
  /\ svc.pc = "listening"
  /\ \E rq \in ConcurrentRequests : svc' = Received(svc, rq)
  /\ UNCHANGED <<wf, inputs, inputs0, inPlace, pc, vars, current, steps,
                 status, resp, dispatched, lookups, ctxDone, fetched, callB>>

ConcurrentNext ==
  \/ SeedConcurrent
  \/ ReadRequestA
  \/ LoadWorkflow
  \/ OverrideDefinition
  \/ InvokeExecute
  \/ Begin
  \/ Step
  \/ WriteResponse
  \/ ReadRequestB
  \/ LoadWorkflowB
  \/ OverrideDefinitionB
  \/ ExecuteB

ConcurrentSpec == ServiceInit /\ [][ConcurrentNext]_allVars

-----------------------------------------------------------------------------

\* The metadata field list is a list whose elements are all names.
IsNameList(fields) ==
  /\ fields.shape = "list"
  /\ \A i \in 1..Len(fields.items) : fields.items[i].t = "string"

ListedNames(fields) ==
  {fields.items[i].s :
     i \in {j \in 1..Len(fields.items) : fields.items[j].t = "string"}}

\* The entries of an options list: the {city, lat, lon} records in it.
Entries(options) ==
  IF options.shape # "list" THEN {}
  ELSE {options.items[i] :
          i \in {j \in 1..Len(options.items) :
                   /\ options.items[j].isMap
                   /\ options.items[j].city.t = "string"
                   /\ options.items[j].lat.t = "float"
                   /\ options.items[j].lon.t = "float"}}

\* The city is a string that names an entry with coordinates other than
\* the sentinel (0,0).
Located(options, city) ==
  /\ city.t = "string"
  /\ \E o \in Entries(options) :
       o.city.s = city.s /\ ~(o.lat.n = 0 /\ o.lon.n = 0)

\* The node a step was recorded for (node ids are unique).
NodeOf(w, id) == w.nodes[CHOOSE i \in 1..Len(w.nodes) : w.nodes[i].id = id]

NodeTypes == {"start", "form", "integration", "condition", "email", "end"}

\* The iteration being taken dispatches a node of the given type.
Visits(type) == dispatched' # dispatched /\ wf.nodes[current].type = type

AllCompleted(tr) == \A i \in 1..Len(tr) : tr[i].status = "completed"
SomeFailed(tr)   == \E i \in 1..Len(tr) : tr[i].status = "failed"

-----------------------------------------------------------------------------
(* C1.  Fail-stop: a trace holds at most one failed step and it is the     *)
(* last one; once a step has failed Execute has returned, every dispatch    *)
(* so far has its step in the trace, and no further iteration can run.      *)
C1_FailStop ==
  /\ \A i \in 1..Len(steps) :
       steps[i].status = "failed" =>
         /\ i = Len(steps)
         /\ pc = "returned"
         /\ resp.steps = steps
         /\ dispatched = Len(steps)
         /\ ~ENABLED Step
  /\ \A i \in 1..Len(resp.steps) :
       resp.steps[i].status = "failed" => i = Len(resp.steps)

\* A step failed after a completed one, at a node that has a resolvable
\* successor the walk did not go on to.
C1_Witness ==
  /\ pc = "returned"
  /\ Len(resp.steps) >= 2
  /\ Last(resp.steps).status = "failed"
  /\ ~Unresolvable(wf, Last(resp.steps).nodeId, vars)

(* C2.  The returned status is "completed" exactly when every step of the   *)
(* returned trace completed, "failed" exactly when some step failed, and    *)
(* never anything else.                                                     *)
C2_StatusMatchesTrace ==
  pc = "returned" =>
    /\ resp.status \in {"completed", "failed"}
    /\ resp.status = "completed" <=> AllCompleted(resp.steps)
    /\ resp.status = "failed" <=> SomeFailed(resp.steps)

C2_Witness ==
  /\ pc = "returned"
  /\ resp.status = "failed"
  /\ Len(resp.steps) >= 2
  /\ resp.steps[1].status = "completed"

(* C3.  A workflow with no node of type "start" is answered with status     *)
(* "failed" and the single system step; no node is dispatched, no lookup    *)
(* is made and the variable map is left as seeded.                          *)
C3_NoStartNode ==
  (pc # "idle" /\ ~HasStart(wf)) =>
    /\ pc = "returned"
    /\ resp.status = "failed"
    /\ Len(resp.steps) = 1
    /\ resp.steps[1].nodeId = "system"
    /\ resp.steps[1].type = "system"
    /\ resp.steps[1].status = "failed"
    /\ resp.steps[1].error.msg = "No start node found in workflow"
    /\ ~resp.steps[1].hasOutput
    /\ dispatched = 0
    /\ lookups = 0
    /\ steps = <<>>
    /\ vars = inputs0 /\ inputs = inputs0

\* Answered for a workflow that has nodes and edges but no start node.
C3_Witness ==
  /\ pc = "returned"
  /\ ~HasStart(wf)
  /\ Len(wf.nodes) >= 2
  /\ Len(wf.edges) >= 1
  /\ resp.steps[1].nodeId = "system"

(* C4.  A workflow of one start node, one end node and the single           *)
(* unconditional edge start -> end completes, for any inputs, with exactly  *)
(* the two steps start, end, both completed.                                *)
IsStartEnd(w) ==
  /\ Len(w.nodes) = 2
  /\ Len(w.edges) = 1
  /\ \E i, j \in 1..2 :
       /\ w.nodes[i].type = "start"
       /\ w.nodes[j].type = "end"
       /\ w.edges[1] = Edge(w.nodes[i].id, w.nodes[j].id, "")

C4_StartEnd ==
  (IsStartEnd(wf) /\ pc # "idle") =>
    /\ pc = "returned"
         => /\ resp.status = "completed"
            /\ Len(resp.steps) = 2
            /\ resp.steps[1].type = "start" /\ resp.steps[1].status = "completed"
            /\ resp.steps[2].type = "end" /\ resp.steps[2].status = "completed"
            /\ resp.steps[1].nodeId # resp.steps[2].nodeId
    /\ pc = "loop" => Len(steps) < 2

\* Returned for start -> end with an inputs map that seeds conditionMet.
C4_Witness ==
  /\ IsStartEnd(wf)
  /\ pc = "returned"
  /\ Len(resp.steps) = 2
  /\ Get(inputs0, "conditionMet") = Bool(FALSE)

(* C5.  Every call of Execute eventually returns a response.               *)
C5_ExecuteReturns == <>(pc = "returned")

(* C6.  The caller's inputs map holds, at every moment of the call and      *)
(* after it, exactly the keys and values it held when Execute was called.   *)
C6_InputsNeverMutated == inputs = inputs0

(* C7.  Edge resolution returns the target of the first edge, in declared   *)
(* order, that leaves the current node and matches, and the empty id when   *)
(* no such edge matches; the walk continues at exactly that node, so an     *)
(* unconditional edge declared before a conditional one is the one taken.   *)
(* (Every edge of the model has a non-empty target id.)                     *)
C7_FirstMatch ==
  /\ \A id \in NodeIds(wf) \cup {"n1", "n2"} :
       findNextNodeID(wf.edges, id, vars) = FirstMatch(wf.edges, id, vars)
  /\ (pc = "loop" /\ Len(steps) >= 1) =>
       wf.nodes[current].id = FirstMatch(wf.edges, Last(steps).nodeId, vars)

\* The walk went from n1 over the unconditional edge declared first, while
\* the conditional edge declared after it matched as well.
C7_Witness ==
  /\ wf.edges = <<Edge("n1", "n2", ""), Edge("n1", "n3", "false")>>
  /\ Len(wf.nodes) = 3
  /\ Get(vars, "conditionMet") = Bool(FALSE)
  /\ pc = "loop"
  /\ Len(steps) = 1
  /\ steps[1].nodeId = "n1"
  /\ wf.nodes[current].id = "n2"

(* C8.  From a node whose outgoing edges are one tagged "true" to A and one *)
(* tagged "false" to B, resolution gives A when conditionMet is the boolean *)
(* true, B when it is the boolean false, and no next node when conditionMet *)
(* is missing or is not a boolean; the walk goes on accordingly.            *)
TwoWay(edges, id, a, b) ==
  /\ \A i \in 1..Len(edges) :
       edges[i].source = id => edges[i].sourceHandle \in {"true", "false"}
  /\ {edges[i].target : i \in {j \in 1..Len(edges) :
        edges[j].source = id /\ edges[j].sourceHandle = "true"}} = {a}
  /\ {edges[i].target : i \in {j \in 1..Len(edges) :
        edges[j].source = id /\ edges[j].sourceHandle = "false"}} = {b}

C8_TrueFalseBranch ==
  \A id \in {"n1", "n2"}, a, b \in {"n1", "n2", "n3"} :
    TwoWay(wf.edges, id, a, b) =>
      /\ \A cm \in {Absent, Bool(TRUE), Bool(FALSE), Str("true"), IntV(1)} :
           findNextNodeID(wf.edges, id, Put(vars, "conditionMet", cm))
             = IF cm = Bool(TRUE) THEN a ELSE IF cm = Bool(FALSE) THEN b ELSE ""
      /\ (pc = "loop" /\ Len(steps) >= 1 /\ Last(steps).nodeId = id) =>
           /\ Get(vars, "conditionMet").t = "bool"
           /\ wf.nodes[current].id = IF Get(vars, "conditionMet").b THEN a ELSE b

\* The walk took the "false" branch to n3, declared after the "true" one.
C8_Witness ==
  /\ TwoWay(wf.edges, "n1", "n2", "n3")
  /\ Len(wf.nodes) = 3
  /\ Get(vars, "conditionMet") = Bool(FALSE)
  /\ pc = "loop"
  /\ Len(steps) = 1
  /\ steps[1].nodeId = "n1"
  /\ wf.nodes[current].id = "n3"

(* C9.  When the last step completed and its node has no matching edge, or  *)
(* the first matching edge leads to an id that is no node, Execute has      *)
(* returned "completed" with the trace ending in that step and no failed    *)
(* or synthetic step.                                                       *)
C9_UnresolvedEndsCompleted ==
  (/\ Len(steps) >= 1
   /\ Last(steps).status = "completed"
   /\ Unresolvable(wf, Last(steps).nodeId, vars)) =>
    /\ pc = "returned"
    /\ resp.status = "completed"
    /\ resp.steps = steps
    /\ AllCompleted(resp.steps)
    /\ Last(resp.steps).nodeId = wf.nodes[current].id

\* Returned "completed" at a node whose first matching edge is broken.
C9_Witness ==
  /\ pc = "returned"
  /\ resp.status = "completed"
  /\ Len(resp.steps) >= 1
  /\ MatchSet(wf.edges, Last(resp.steps).nodeId, vars) # {}
  /\ Unresolvable(wf, Last(resp.steps).nodeId, vars)

(* C10.  In every returned trace a step of type "end" is the last step:     *)
(* the walker resolves no next node after an end node.                      *)
C10_EndIsLast ==
  pc = "returned" =>
    \A i \in 1..Len(resp.steps) :
      resp.steps[i].type = "end" => i = Len(resp.steps)

(* C11.  One step per node visit: the trace is as long as the number of     *)
(* nodes dispatched; every dispatch appends exactly one step, which carries *)
(* the id, type, label and description of the node being visited; the steps *)
(* already in the trace are never changed or removed; and the returned      *)
(* trace is the trace built.                                                *)
C11_OneStepPerVisit ==
  /\ [](Len(steps) = dispatched)
  /\ [][/\ Len(steps) <= Len(steps') /\ Len(steps') <= Len(steps) + 1
        /\ SubSeq(steps', 1, Len(steps)) = steps
        /\ dispatched' # dispatched =>
             /\ Len(steps') = Len(steps) + 1
             /\ Last(steps').nodeId = wf.nodes[current].id
             /\ Last(steps').type = wf.nodes[current].type
             /\ Last(steps').label = wf.nodes[current].label
             /\ Last(steps').description = wf.nodes[current].description
        /\ (pc' = "returned" /\ dispatched' > 0) => resp'.steps = steps'
       ]_allVars

\* Three nodes with three different labels and descriptions were visited.
C11_Witness ==
  /\ pc = "returned"
  /\ Len(resp.steps) = 3
  /\ dispatched = 3
  /\ resp.steps[2].type = "form"
  /\ resp.steps[2].description = "Collect user data"
  /\ resp.steps[3].description = "Workflow completed successfully"

(* C12.  Idempotence: a second Execute call made after the first one has   *)
(* returned, on the same workflow and with the same inputs (the same map    *)
(* object or a map with the same entries), the lookup answering as it did   *)
(* the first time, returns the same steps and the same status.              *)
C12_Idempotent ==
  (callB.successive /\ callB.pc = "returned") => callB.resp = resp

(* C13.  Two Execute calls on the same Executor, interleaved in any way,    *)
(* each return the steps and status the call would return running alone on  *)
(* the inputs it was given.                                                 *)
C13_NoInterference ==
  /\ pc = "returned" =>
       \E f \in fetchWeather(FALSE) : resp = ExecAlone(wf, inputs0, f)
  /\ callB.pc = "returned" =>
       \E f \in fetchWeather(FALSE) :
         callB.resp = ExecAlone(wf, callB.inputs0, f)

(* C14.  Execute never modifies the workflow it is given: no step of a      *)
(* call, completed or failed, changes a node (id, type, label, description, *)
(* metadata) or an edge (source, target, sourceHandle, order).              *)
C14_GraphUnchanged == [][wf' = wf]_allVars

\* A call that read the options of its integration node, made the lookup
\* and went on to the end node.
C14_Witness ==
  /\ pc = "returned"
  /\ lookups = 1
  /\ Len(resp.steps) = 3
  /\ resp.steps[2].type = "integration"
  /\ resp.steps[2].status = "completed"

(* C15.  A form node whose field list is a list of names: when every name   *)
(* is a key of the variable map the step completes and its output holds     *)
(* exactly the listed names with the map's values; when a name is missing   *)
(* the step fails, carries no output, and the call returns there.  The      *)
(* variable map is left as it was.                                          *)
C15_FormCopiesFields ==
  [][(Visits("form") /\ IsNameList(wf.nodes[current].metadata.inputFields)) =>
       LET names == ListedNames(wf.nodes[current].metadata.inputFields)
           st    == Last(steps')
       IN /\ names \subseteq KeysOf(vars) =>
               /\ st.status = "completed"
               /\ st.hasOutput
               /\ KeysOf(st.output) = names
               /\ \A k \in names : st.output[k] = vars[k]
          /\ ~(names \subseteq KeysOf(vars)) =>
               /\ st.status = "failed"
               /\ ~st.hasOutput
               /\ pc' = "returned"
               /\ resp'.status = "failed"
               /\ Last(resp'.steps) = st
          /\ vars' = vars
    ]_allVars

\* A form step that copied name and email out of a map holding more.
C15_Witness ==
  /\ pc = "returned"
  /\ Len(resp.steps) = 3
  /\ resp.steps[2].type = "form"
  /\ resp.steps[2].status = "completed"
  /\ KeysOf(resp.steps[2].output) = {"name", "email"}
  /\ "city" \in KeysOf(vars)

(* C16.  A form step fails whenever the field list of its node is missing,  *)
(* is not a list, or is a list holding an element that is not a string.     *)
C16_BadFieldListFails ==
  \A i \in 1..Len(steps) :
    (/\ steps[i].type = "form"
     /\ ~IsNameList(NodeOf(wf, steps[i].nodeId).metadata.inputFields))
      => steps[i].status = "failed"

(* C16, amended.  A form step fails, with the invalid-metadata error and no *)
(* output, whenever the field list is missing or is not a list.  Elements   *)
(* of the list that are not strings are skipped: the step then completes,   *)
(* with exactly the listed names as output, when every listed name is a key *)
(* of the variable map, and fails when one is missing.                      *)
C16_BadFieldList ==
  [][Visits("form") =>
       LET fields == wf.nodes[current].metadata.inputFields
           st     == Last(steps')
       IN /\ fields.shape # "list" =>
               /\ st.status = "failed"
               /\ st.error.msg = "invalid inputFields in form node metadata"
               /\ ~st.hasOutput
               /\ pc' = "returned"
          /\ (fields.shape = "list" /\ ~IsNameList(fields)) =>
               /\ st.status = "completed"
                    <=> ListedNames(fields) \subseteq KeysOf(vars)
               /\ st.status = "completed" =>
                    KeysOf(st.output) = ListedNames(fields)
               /\ st.status = "failed" =>
                    st.error.msg = "missing required input field"
    ]_allVars

\* A form step completed although its field list holds a number.
C16_Witness ==
  /\ pc = "returned"
  /\ Len(resp.steps) = 3
  /\ resp.steps[2].type = "form"
  /\ ~IsNameList(NodeOf(wf, resp.steps[2].nodeId).metadata.inputFields)
  /\ resp.steps[2].status = "completed"
  /\ KeysOf(resp.steps[2].output) = {"name"}

(* C17.  An integration node whose city variable is a string naming, letter *)
(* for letter, an entry of the options list with coordinates other than     *)
(* (0,0): the lookup is made, and when it returns the reading r the step    *)
(* completes, the variable temperature holds r, nothing else in the map     *)
(* changes, and the step output is exactly {temperature: r, location: city}. *)
C17_IntegrationSuccess ==
  [][(/\ Visits("integration")
      /\ Located(wf.nodes[current].metadata.options, Get(vars, "city"))
      /\ fetched = NoFetch) =>
       LET st == Last(steps') IN
       /\ lookups' = lookups + 1
       /\ fetched' # NoFetch
       /\ fetched'.err = NoError =>
            /\ st.status = "completed"
            /\ vars' = Put(vars, "temperature", Flt(fetched'.temperature))
            /\ st.hasOutput
            /\ st.output = [temperature |-> Flt(fetched'.temperature),
                            location    |-> Get(vars, "city")]
    ]_allVars

\* The lookup for Sydney, listed after malformed entries, returned 20 and
\* replaced the temperature the inputs came with.
C17_Witness ==
  /\ wf = Chain(KIntegOdd)
  /\ pc = "returned"
  /\ Len(resp.steps) = 3
  /\ resp.steps[2].status = "completed"
  /\ resp.steps[2].output = [temperature |-> Flt(20), location |-> Str("Sydney")]
  /\ Get(inputs0, "temperature") = Flt(99)
  /\ Get(vars, "temperature") = Flt(20)

(* C18.  An integration step fails, leaves the variable map (temperature    *)
(* included) as it was, carries no output and ends the call with status     *)
(* "failed" when (a) city is missing or is not a string, (b) city names no  *)
(* entry of the options list or names one with the coordinates (0,0), in    *)
(* which case no lookup is made, or (c) the lookup returns an error.        *)
C18_IntegrationFailure ==
  [][Visits("integration") =>
       LET city    == Get(vars, "city")
           options == wf.nodes[current].metadata.options
           st      == Last(steps')
           Stopped == /\ st.status = "failed"
                      /\ ~st.hasOutput
                      /\ vars' = vars
                      /\ pc' = "returned"
                      /\ resp'.status = "failed"
                      /\ Last(resp'.steps) = st
       IN /\ city.t # "string" =>
               Stopped /\ st.error.msg = "city not found in variables"
          /\ (city.t = "string" /\ ~Located(options, city)) =>
               /\ Stopped
               /\ st.error.msg = "coordinates not found for city"
               /\ lookups' = lookups
               /\ fetched' = fetched
          /\ (Located(options, city) /\ fetched = NoFetch
                                    /\ fetched'.err # NoError) =>
               Stopped /\ st.error.msg = "failed to fetch weather data"
    ]_allVars

\* The step failed for Perth, listed with the coordinates (0,0), without a
\* lookup and with the earlier temperature still in place.
C18_Witness ==
  /\ wf = Chain(KIntegOdd)
  /\ pc = "returned"
  /\ Len(resp.steps) = 2
  /\ resp.steps[2].status = "failed"
  /\ resp.steps[2].error = Err("coordinates not found for city", "Perth")
  /\ lookups = 0
  /\ Get(vars, "temperature") = Flt(99)

(* C19.  When ctx is cancelled before or during the lookup of an            *)
(* integration node, or the lookup runs into its timeout, the step fails    *)
(* with the lookup error and the call returns "failed" at that step.        *)
(* Cancelling changes nothing else: a cancelled ctx leaves every other step *)
(* and the walk as they are without it, so the response is the one of a run *)
(* whose lookup, if one was made, answered the same.                        *)
C19_Cancellation ==
  /\ [][(/\ Visits("integration")
          /\ lookups' # lookups
          /\ \/ ctxDone'
             \/ fetched = NoFetch
                /\ fetched'.err = Err("context deadline exceeded", "")) =>
           /\ Last(steps').status = "failed"
           /\ Last(steps').error.msg = "failed to fetch weather data"
           /\ Last(steps').error.arg
                \in {"context canceled", "context deadline exceeded"}
           /\ ctxDone' => Last(steps').error.arg = "context canceled"
           /\ pc' = "returned"
           /\ resp'.status = "failed"
           /\ Last(resp'.steps) = Last(steps')
        ]_allVars
  /\ [][(dispatched' # dispatched /\ ~Visits("integration")) =>
           (lookups' = lookups /\ ctxDone' = ctxDone)]_allVars
  /\ [](pc = "returned" =>
          resp = ExecAlone(wf, inputs0,
                           IF fetched = NoFetch THEN CtxCanceled ELSE fetched))

\* ctx was cancelled before the integration node was reached and its lookup
\* failed on it.
C19_Witness ==
  /\ pc = "returned"
  /\ ctxDone
  /\ lookups = 1
  /\ Len(resp.steps) = 2
  /\ resp.steps[2].type = "integration"
  /\ resp.steps[2].error = Err("failed to fetch weather data", "context canceled")

(* C20.  A condition node with a numeric temperature t and threshold h      *)
(* completes and computes conditionMet, in the variables and in its output, *)
(* as t > h for greater_than, t < h for less_than, t = h for equals,        *)
(* t >= h for greater_than_or_equal, t <= h for less_than_or_equal, and as  *)
(* t > h when operator is missing, is not a string, or is any other string. *)
C20_ConditionOperators ==
  [][(/\ Visits("condition")
      /\ Get(vars, "temperature").t = "float"
      /\ Get(vars, "threshold").t \in {"float", "int"}) =>
       LET t  == Get(vars, "temperature").n
           h  == Get(vars, "threshold").n
           op == Get(vars, "operator")
           expected ==
             IF op = Str("less_than") THEN t < h
             ELSE IF op = Str("equals") THEN t = h
             ELSE IF op = Str("greater_than_or_equal") THEN t >= h
             ELSE IF op = Str("less_than_or_equal") THEN t <= h
             ELSE t > h
       IN /\ Last(steps').status = "completed"
          /\ Last(steps').output.conditionMet = Bool(expected)
          /\ vars' = Put(vars, "conditionMet", Bool(expected))
    ]_allVars

\* less_than_or_equal held for a temperature equal to the integer threshold.
C20_Witness ==
  /\ pc = "returned"
  /\ Get(inputs0, "operator") = Str("less_than_or_equal")
  /\ Get(inputs0, "temperature") = Flt(25)
  /\ Get(inputs0, "threshold") = IntV(25)
  /\ Len(resp.steps) = 3
  /\ resp.steps[2].type = "condition"
  /\ resp.steps[2].output.conditionMet = Bool(TRUE)

(* C21.  A condition node given an integer threshold n does what it does    *)
(* given the float threshold n: for every temperature and operator the step *)
(* has the same status and error, the same output (the threshold recorded   *)
(* as a float), and the same conditionMet is written to the variables.      *)
C21_IntThresholdAsFloat ==
  [][(Visits("condition") /\ Get(vars, "threshold").t = "int") =>
       LET n  == Get(vars, "threshold").n
           f  == processConditionNode(Put(vars, "threshold", Flt(n)))
           st == Last(steps')
       IN /\ st.status = (IF f.err = NoError THEN "completed" ELSE "failed")
          /\ st.error = f.err
          /\ st.hasOutput = f.hasOutput
          /\ st.output = f.output
          /\ Get(vars', "conditionMet") = Get(f.vars, "conditionMet")
          /\ Get(vars, "temperature").t = "float" =>
               /\ st.status = "completed"
               /\ st.output.threshold = Flt(n)
    ]_allVars

\* equals held for the temperature 25 and the integer threshold 25.
C21_Witness ==
  /\ pc = "returned"
  /\ Get(inputs0, "threshold") = IntV(25)
  /\ Get(inputs0, "temperature") = Flt(25)
  /\ Get(inputs0, "operator") = Str("equals")
  /\ Len(resp.steps) = 3
  /\ resp.steps[2].type = "condition"
  /\ resp.steps[2].output.threshold = Flt(25)
  /\ resp.steps[2].output.conditionMet = Bool(TRUE)

(* C22.  A condition step fails, carries no output, leaves the variables    *)
(* (conditionMet included) as they were and ends the call with status       *)
(* "failed" when temperature is missing or is not a number, or when         *)
(* threshold is missing or is neither a float nor an integer.               *)
C22_ConditionFailure ==
  [][(/\ Visits("condition")
      /\ \/ Get(vars, "temperature").t # "float"
         \/ Get(vars, "threshold").t \notin {"float", "int"}) =>
       LET st == Last(steps') IN
       /\ st.status = "failed"
       /\ st.error.msg =
            (IF Get(vars, "temperature").t # "float"
             THEN "temperature not found in variables"
             ELSE "threshold not found in variables")
       /\ ~st.hasOutput
       /\ vars' = vars
       /\ pc' = "returned"
       /\ resp'.status = "failed"
       /\ Last(resp'.steps) = st
    ]_allVars

\* The step failed on a threshold that is a word.
C22_Witness ==
  /\ pc = "returned"
  /\ Get(inputs0, "threshold") = Str("high")
  /\ Len(resp.steps) = 2
  /\ resp.steps[2].type = "condition"
  /\ resp.steps[2].error = Err("threshold not found in variables", "")
  /\ ~Has(vars, "conditionMet")

(* C23.  Branching follows the condition result.  Right after a condition   *)
(* step has completed, conditionMet in the variables is the boolean         *)
(* recorded in the step's output, whatever was there before; and when the   *)
(* edges that leave the condition node are a "true" edge and a "false" edge *)
(* to nodes of the workflow, the walk continues, and the next step of the   *)
(* trace is for the target of the edge whose tag is the computed result.    *)
C23_BranchFollowsCondition ==
  \A i \in 1..Len(steps) :
    (steps[i].type = "condition" /\ steps[i].status = "completed") =>
      LET cm == steps[i].output.conditionMet IN
      /\ cm.t = "bool"
      /\ i = Len(steps) => Get(vars, "conditionMet") = cm
      /\ \A a, b \in NodeIds(wf) :
           TwoWay(wf.edges, steps[i].nodeId, a, b) =>
             IF i < Len(steps)
             THEN steps[i + 1].nodeId = (IF cm.b THEN a ELSE b)
             ELSE /\ pc = "loop"
                  /\ wf.nodes[current].id = (IF cm.b THEN a ELSE b)

\* conditionMet came in as true, the condition node computed false and the
\* walk took the "false" edge, declared after the "true" edge, to the end.
C23_Witness ==
  /\ wf \in BranchWorkflows
  /\ wf.edges[2] = Edge("n2", "n3", "true")
  /\ wf.edges[3] = Edge("n2", "n4", "false")
  /\ Get(inputs0, "conditionMet") = Bool(TRUE)
  /\ pc = "returned"
  /\ Len(resp.steps) = 3
  /\ resp.steps[2].type = "condition"
  /\ resp.steps[2].output.conditionMet = Bool(FALSE)
  /\ resp.steps[3].nodeId = "n4"

(* C24.  An email node reached while conditionMet is missing or false       *)
(* completes, whether or not city, temperature and email are there, with    *)
(* exactly the output {emailSent: false, message: "Condition not met, no    *)
(* email sent"}, and leaves the variables as they were.                     *)
C24_EmailNotMet ==
  [][(/\ Visits("email")
      /\ Get(vars, "conditionMet") \in {Absent, Bool(FALSE)}) =>
       /\ Last(steps').status = "completed"
       /\ Last(steps').error = NoError
       /\ Last(steps').hasOutput
       /\ Last(steps').output =
            [emailSent |-> Bool(FALSE),
             message   |-> Str("Condition not met, no email sent")]
       /\ vars' = vars
    ]_allVars

\* The email step completed without sending although none of city,
\* temperature and email was there.
C24_Witness ==
  /\ wf = Chain(KEmail)
  /\ pc = "returned"
  /\ Get(inputs0, "conditionMet") = Bool(FALSE)
  /\ KeysOf(inputs0) \cap {"city", "temperature", "email"} = {}
  /\ Len(resp.steps) = 3
  /\ resp.steps[2].status = "completed"
  /\ resp.steps[2].output.emailSent = Bool(FALSE)

(* C25.  An email node reached while conditionMet is true completes, with   *)
(* emailSent=true, deliveryStatus "sent", a message id and a draft to the   *)
(* email variable, if and only if city, temperature and email are all keys  *)
(* of the variables; otherwise the step fails.                              *)
C25_EmailMetIffPresent ==
  (/\ Len(steps) >= 1
   /\ Last(steps).type = "email"
   /\ Get(vars, "conditionMet") = Bool(TRUE)) =>
    (Last(steps).status = "completed"
       <=> {"city", "temperature", "email"} \subseteq KeysOf(vars))

(* C25, amended.  An email node reached while conditionMet is true          *)
(* completes, with emailSent=true, deliveryStatus "sent", a message id and  *)
(* a draft to the email variable, if and only if city and email are there   *)
(* as strings and temperature as a number; when one of the three is missing *)
(* or of another type the step fails, without output, and the call returns  *)
(* "failed" at it.  No output with emailSent=true is produced while         *)
(* conditionMet is missing or false.                                        *)
C25_EmailMet ==
  [][Visits("email") =>
       LET st    == Last(steps')
           typed == /\ Get(vars, "city").t = "string"
                    /\ Get(vars, "temperature").t = "float"
                    /\ Get(vars, "email").t = "string"
       IN /\ (Get(vars, "conditionMet") = Bool(TRUE) /\ typed) =>
               /\ st.status = "completed"
               /\ st.hasOutput
               /\ st.output.emailSent = Bool(TRUE)
               /\ st.output.deliveryStatus = Str("sent")
               /\ st.output.messageId.t = "string"
               /\ st.output.messageId.s # ""
               /\ st.output.emailDraft_to = Get(vars, "email")
          /\ (Get(vars, "conditionMet") = Bool(TRUE) /\ ~typed) =>
               /\ st.status = "failed"
               /\ ~st.hasOutput
               /\ pc' = "returned"
               /\ resp'.status = "failed"
               /\ Last(resp'.steps) = st
          /\ Get(vars, "conditionMet") \in {Absent, Bool(FALSE)} =>
               ~(st.hasOutput /\ st.output.emailSent = Bool(TRUE))
          /\ vars' = vars
    ]_allVars

\* The condition node computed true and the email node on its "true" edge
\* sent the alert.
C25_Witness ==
  /\ wf \in BranchWorkflows
  /\ pc = "returned"
  /\ Len(resp.steps) = 4
  /\ resp.steps[2].output.conditionMet = Bool(TRUE)
  /\ resp.steps[3].type = "email"
  /\ resp.steps[3].output.emailSent = Bool(TRUE)
  /\ resp.steps[3].output.emailDraft_to = Str("john@example.com")

C27_FailuresInResponse ==
  /\ <>(pc = "returned" /\ Len(resp.steps) >= 1)
  /\ [](pc = "returned" =>
          \A i \in 1..Len(resp.steps) :
            /\ resp.steps[i].status \in {"completed", "failed"}
            /\ resp.steps[i].status = "failed" <=> resp.steps[i].error.msg # ""
            /\ resp.steps[i].status = "failed" => ~resp.steps[i].hasOutput)

-----------------------------------------------------------------------------
(* Vocabulary of the persistence properties *)

Range(seq) == {seq[i] : i \in 1..Len(seq)}

\* The node ids of a response's steps, in order.
TraceIds(r) == [i \in 1..Len(r.steps) |-> r.steps[i].nodeId]

\* Value w is value v as JSON gives it back: a number comes back as a
\* float64 of the same value, anything else as it was.
ReadsAs(v, w) == IF v.t \in {"int", "float"} THEN w = Flt(v.n) ELSE w = v

\* List r is list l as JSON gives it back: a slice of any element type
\* comes back as a generic list of the same length.
ListReadsAs(l, r) ==
  IF l.shape \in {"list", "typed"}
  THEN r.shape = "list" /\ Len(r.items) = Len(l.items)
  ELSE r = l

MetadataReadsAs(m, r) ==
  /\ ListReadsAs(m.inputFields, r.inputFields)
  /\ ListReadsAs(m.options, r.options)
  /\ \A i \in 1..Len(m.inputFields.items) :
       ReadsAs(m.inputFields.items[i], r.inputFields.items[i])
  /\ \A i \in 1..Len(m.options.items) :
       /\ r.options.items[i].isMap = m.options.items[i].isMap
       /\ ReadsAs(m.options.items[i].city, r.options.items[i].city)
       /\ ReadsAs(m.options.items[i].lat, r.options.items[i].lat)
       /\ ReadsAs(m.options.items[i].lon, r.options.items[i].lon)

\* The graph's metadata already has the form JSON gives back: its lists
\* are generic lists and its numbers float64.
JsonShaped(g) ==
  \A i \in 1..Len(g.nodes) :
    LET m == g.nodes[i].metadata IN
    /\ m.inputFields.shape # "typed"
    /\ m.options.shape # "typed"
    /\ \A j \in 1..Len(m.inputFields.items) : m.inputFields.items[j].t # "int"
    /\ \A j \in 1..Len(m.options.items) :
         /\ m.options.items[j].city.t # "int"
         /\ m.options.items[j].lat.t # "int"
         /\ m.options.items[j].lon.t # "int"

\* Same ids, types, labels and descriptions node by node, and the same
\* edges.
SameSkeleton(g, h) ==
  /\ Len(h.nodes) = Len(g.nodes)
  /\ \A i \in 1..Len(g.nodes) :
       /\ h.nodes[i].id = g.nodes[i].id
       /\ h.nodes[i].type = g.nodes[i].type
       /\ h.nodes[i].label = g.nodes[i].label
       /\ h.nodes[i].description = g.nodes[i].description
  /\ h.edges = g.edges

\* The handler has run the stored definition and answered: the response's
\* trace visits the nodes a run of graph g on the same inputs visits.
VisitsAs(g) ==
  \E f \in FetchOutcomes \cup {CtxCanceled} :
    /\ fetched # NoFetch => f = fetched
    /\ TraceIds(svc.result) = TraceIds(ExecAlone(g, inputs0, f))

RanStored ==
  /\ svc.code = 200
  /\ ~svc.execReq.workflowDefinition.present

\* C28 as stated: the graph GetWorkflow reads back is the graph that was
\* stored, with the same nodes, metadata and edges, and running it visits
\* the nodes a run of the stored graph visits.
C28_RoundTripIdentical ==
  /\ svc.got => svc.loaded = svc.seed
  /\ RanStored => VisitsAs(svc.seed)

\* C28: the graph read back has the same nodes (ids, types, labels) and
\* edges in the same order and the metadata as JSON gives it back; a graph
\* whose metadata already has that form is read back identical, and running
\* it visits the same nodes as running the original.
C28_RoundTrip ==
  /\ svc.got =>
       /\ SameSkeleton(svc.seed, svc.loaded)
       /\ \A i \in 1..Len(svc.seed.nodes) :
            MetadataReadsAs(svc.seed.nodes[i].metadata,
                            svc.loaded.nodes[i].metadata)
       /\ JsonShaped(svc.seed) => svc.loaded = svc.seed
  /\ RanStored /\ JsonShaped(svc.seed) => VisitsAs(svc.seed)

\* A literal with a []string field list was stored, read back and run to
\* its end node, and a literal read back identical was run.
C28_Witness ==
  /\ RanStored
  /\ svc.seed = Chain(KFormTyped)
  /\ svc.loaded = Chain(KForm)
  /\ Len(svc.result.steps) = 3

-----------------------------------------------------------------------------
(* Vocabulary of the handler properties *)

\* The request's condition carries a threshold that is neither a number
\* nor a string that reads as one.
ThresholdUnusable ==
  LET c == svc.execReq.condition IN
  /\ c.present
  /\ Has(c.is, "threshold")
  /\ \/ c.is["threshold"].t \notin {"float", "int", "string"}
     \/ c.is["threshold"].t = "string" /\ c.is["threshold"].s \notin Numerals

Supplied == svc.execReq.workflowDefinition.present

\* C29: when the repository lookup fails the request is answered 404, the
\* executor is never invoked and nothing is saved; a body that cannot be
\* parsed is answered 400 with neither the repository nor the executor
\* touched.
C29_LookupFailure ==
  /\ svc.getErr =>
       /\ svc.pc = "done"
       /\ svc.code = 404
       /\ pc = "uncalled"
       /\ svc.log = <<"GetWorkflow">>
       /\ svc.row = Row(Marshal(svc.seed))
  /\ svc.pc \notin {"boot", "listening"} /\ ~svc.request.body.parses =>
       /\ svc.pc = "done"
       /\ svc.code = 400
       /\ pc = "uncalled"
       /\ svc.log = <<>>
       /\ svc.row = Row(Marshal(svc.seed))

\* The lookup of an existing row failed for a request that carried a
\* definition to save.
C29_Witness ==
  /\ svc.getErr
  /\ svc.request.known
  /\ Supplied
  /\ svc.code = 404

\* C30: with a supplied definition the executed graph is the supplied one,
\* it is saved before Execute is invoked, and a failed save changes nothing
\* else: the request ends as it would have, with the supplied definition
\* run and its result returned; without one the stored definition is run
\* and SaveWorkflow is never called.
C30_SuppliedDefinition ==
  /\ Supplied /\ pc # "uncalled" =>
       /\ wf = svc.execReq.workflowDefinition.is
       /\ svc.log = <<"GetWorkflow", "SaveWorkflow", "Execute">>
  /\ Supplied /\ svc.saveErr /\ svc.pc = "done" =>
       IF svc.normalises /\ ThresholdUnusable
       THEN svc.code = 400 /\ pc = "uncalled"
       ELSE /\ svc.code = 200
            /\ svc.result = resp
            /\ wf = svc.execReq.workflowDefinition.is
            /\ Len(svc.result.steps) >= 1
  /\ ~Supplied /\ pc # "uncalled" =>
       /\ wf = svc.loaded
       /\ wf = Unmarshal(svc.row.doc)
       /\ svc.log = <<"GetWorkflow", "Execute">>
  /\ ~Supplied => "SaveWorkflow" \notin Range(svc.log) /\ ~svc.saveErr

\* The save of a supplied definition failed, and the request was answered
\* with the result of running that definition, which is not the stored one.
C30_Witness ==
  /\ Supplied
  /\ svc.saveErr
  /\ svc.code = 200
  /\ wf # svc.loaded
  /\ svc.row = Row(Marshal(svc.seed))
  /\ Len(svc.result.steps) = Len(wf.nodes)

\* The threshold of the request's condition, Absent when there is none.
RequestThreshold ==
  IF svc.execReq.condition.present
  THEN Get(svc.execReq.condition.is, "threshold") ELSE Absent

RequestOperator ==
  IF svc.execReq.condition.present
  THEN Get(svc.execReq.condition.is, "operator") ELSE Absent

\* C31: the inputs passed to Execute hold every formData key, `operator`
\* only when condition.operator is a string, and `threshold` as a float
\* whenever condition.threshold is a number or a numeric string; any other
\* threshold is answered with 400 and Execute is not invoked.
C31_InputNormalisation ==
  /\ pc # "uncalled" =>
       /\ \A k \in DOMAIN svc.execReq.formData :
            /\ Has(inputs0, k)
            /\ k \notin {"operator", "threshold"} =>
                 inputs0[k] = svc.execReq.formData[k]
       /\ IF RequestOperator.t = "string"
          THEN Get(inputs0, "operator") = RequestOperator
          ELSE Get(inputs0, "operator") = Get(svc.execReq.formData, "operator")
       /\ RequestThreshold.t \in {"float", "int"} =>
            Get(inputs0, "threshold") = Flt(RequestThreshold.n)
       /\ RequestThreshold.t = "string" /\ RequestThreshold.s \in Numerals =>
            Get(inputs0, "threshold") = Flt(ParseFloat(RequestThreshold.s).f)
  /\ ThresholdUnusable => pc = "uncalled"
  /\ ThresholdUnusable /\ svc.pc = "done" /\ svc.got => svc.code = 400

\* The request was answered 400 for its threshold.
ThresholdRejected ==
  /\ svc.code = 400
  /\ svc.message \in {"Invalid threshold value", "Invalid threshold type"}

\* C32: a request rejected with 400 for an invalid threshold leaves the
\* stored definition as it was before the request, also when the request
\* carried a workflowDefinition.
C32_RejectionKeepsStored ==
  ThresholdRejected => svc.row = Row(Marshal(svc.seed))

-----------------------------------------------------------------------------
(* Vocabulary of the two-request properties *)

\* Handler record s called SaveWorkflow and the save succeeded.
Saved(s) == "SaveWorkflow" \in Range(s.log) /\ ~s.saveErr

\* The graph handler record s is to run: the definition its request
\* supplied, or else the one its own GetWorkflow returned.
OwnGraph(s) ==
  IF s.execReq.workflowDefinition.present
  THEN s.execReq.workflowDefinition.is ELSE s.loaded

\* The documents the row may hold once both requests have finished.
FinalDocs ==
  {Marshal(svc.seed)} \cup
  {Marshal(s.execReq.workflowDefinition.is) :
     s \in {r \in {svc, svc.other} : Saved(r)}}

\* C33: under every interleaving of two requests on the same id, each
\* request that supplies a definition runs that definition, each request
\* without one runs the definition its own GetWorkflow returned, and once
\* both have finished the row holds the original definition or the one
\* supplied by a request whose save succeeded, whole.
C33_ConcurrentRequests ==
  /\ pc # "uncalled" => wf = OwnGraph(svc)
  /\ svc.code = 200 =>
       \E f \in FetchOutcomes \cup {CtxCanceled} :
         svc.result = ExecAlone(OwnGraph(svc), inputs0, f)
  /\ svc.other.code = 200 =>
       /\ svc.other.ran = OwnGraph(svc.other)
       /\ \E f \in FetchOutcomes, nm \in BOOLEAN :
            svc.other.result =
              ExecAlone(OwnGraph(svc.other),
                        BuildInputs(svc.other.execReq, nm).inputs, f)
  /\ svc.pc = "done" /\ svc.other.pc = "done" => svc.row.doc \in FinalDocs

\* Both requests supplied a definition, not the same one, both saves
\* succeeded and both were answered; one request loaded what the other
\* had saved.
C33_Witness ==
  /\ svc.code = 200 /\ svc.other.code = 200
  /\ Saved(svc) /\ Saved(svc.other)
  /\ OwnGraph(svc) # OwnGraph(svc.other)
  /\ svc.other.loaded = OwnGraph(svc)
  /\ svc.row.doc = Marshal(OwnGraph(svc.other))

-----------------------------------------------------------------------------
(* C34.  A failing step leaves no partial write: whenever a dispatched      *)
(* node's step fails, whatever the node's type, the variable map after the  *)
(* step is the map before it.                                               *)
C34_NoPartialWrite ==
  [][(dispatched' # dispatched /\ Last(steps').status = "failed") =>
       /\ vars' = vars
       /\ inputs' = inputs
    ]_allVars

\* An integration step whose lookup failed, with the temperature seeded
\* before the call still in the map the call works on in place.
C34_Witness ==
  /\ pc = "returned"
  /\ Len(steps) = 2
  /\ steps[2].type = "integration"
  /\ steps[2].error.msg = "failed to fetch weather data"
  /\ Get(vars, "temperature") = Flt(99)
  /\ inPlace

-----------------------------------------------------------------------------
\* The keys of map m2 that map m1 lacks or holds with another value.
Written(m1, m2) == {k \in DOMAIN m2 : k \notin DOMAIN m1 \/ m2[k] # m1[k]}

(* C35.  Environment frame: an iteration removes no key of the variable     *)
(* map; it changes `temperature` only in a completed integration step and   *)
(* `conditionMet` only in a completed condition step, and no other key;     *)
(* start, form, email and end steps leave the map as it is; and every other *)
(* key the caller seeded holds its seeded value from the entry of Execute   *)
(* to its return.                                                           *)
C35_EnvironmentFrame ==
  /\ [][dispatched' # dispatched =>
          LET type == wf.nodes[current].type
              st   == Last(steps')
          IN /\ DOMAIN vars \subseteq DOMAIN vars'
             /\ Written(vars, vars') \subseteq {"temperature", "conditionMet"}
             /\ "temperature" \in Written(vars, vars') =>
                  type = "integration" /\ st.status = "completed"
             /\ "conditionMet" \in Written(vars, vars') =>
                  type = "condition" /\ st.status = "completed"
             /\ type \in {"start", "form", "email", "end"} => vars' = vars
       ]_allVars
  /\ [](pc \in {"loop", "returned"} /\ HasStart(wf) =>
          \A k \in DOMAIN inputs0 \ {"temperature", "conditionMet"} :
            Get(vars, k) = inputs0[k])

\* A walk through a condition node and an email node has returned: the
\* condition step replaced the seeded conditionMet, the email step that
\* followed left the map alone, and the seeded city and email are as given.
C35_Witness ==
  /\ pc = "returned"
  /\ wf \in BranchWorkflows
  /\ Len(steps) = 4
  /\ steps[3].type = "email"
  /\ Get(inputs0, "conditionMet") = Bool(FALSE)
  /\ Get(vars, "conditionMet") = Bool(TRUE)
  /\ Get(vars, "city") = Str("Sydney")
  /\ Get(vars, "email") = Get(inputs0, "email")

-----------------------------------------------------------------------------
\* The start nodes of workflow w, by their place in the node slice.
StartPlaces(w) == {i \in 1..Len(w.nodes) : w.nodes[i].type = "start"}

(* C36.  The trace is a path of the graph: when the workflow has a start    *)
(* node the first step is the step of the first node of type "start" in     *)
(* declared order, and each later step is the step of the node that the     *)
(* first edge matching for the step before it, under the variable map as    *)
(* that step left it, leads to.                                             *)
C36_TraceIsPath ==
  /\ [](HasStart(wf) /\ Len(steps) >= 1 =>
          steps[1].nodeId = wf.nodes[Min(StartPlaces(wf))].id)
  /\ [][(dispatched' # dispatched /\ Len(steps) >= 1) =>
          LET s == Last(steps) IN
          /\ MatchSet(wf.edges, s.nodeId, vars) # {}
          /\ LET e == wf.edges[Min(MatchSet(wf.edges, s.nodeId, vars))] IN
             /\ e.source = s.nodeId
             /\ e.target = Last(steps').nodeId
       ]_allVars

\* Two start nodes are declared after a node of another type; the walk
\* began at the first of the two and went on along its edge.
C36_Witness ==
  /\ pc = "returned"
  /\ Len(wf.nodes) = 3
  /\ wf.nodes[1].type # "start"
  /\ wf.nodes[2].type = "start"
  /\ wf.nodes[3].type = "start"
  /\ Len(steps) = 2
  /\ steps[1].nodeId = "n2"
  /\ steps[2].nodeId = "n1"

-----------------------------------------------------------------------------
(* C37.  Meaning of a completed result: whenever Execute has returned the   *)
(* status "completed", the node of the last step has no resolvable          *)
(* successor under the final variable map: no edge leaving it matches, or   *)
(* the first matching one leads to an id that is no node.  (That such a     *)
(* result need not end at a node of type "end" is what the witness shows.)  *)
C37_CompletedMeansNoSuccessor ==
  (pc = "returned" /\ resp.status = "completed") =>
    /\ Len(resp.steps) >= 1
    /\ LET id == Last(resp.steps).nodeId IN
       \/ MatchSet(wf.edges, id, vars) = {}
       \/ wf.edges[Min(MatchSet(wf.edges, id, vars))].target \notin NodeIds(wf)

\* A completed result whose last step is a condition step: the only edge
\* leaving the node is tagged "true" and the condition came out false, and
\* no node of type "end" was reached.
C37_Witness ==
  /\ pc = "returned"
  /\ resp.status = "completed"
  /\ Last(resp.steps).type = "condition"
  /\ Get(vars, "conditionMet") = Bool(FALSE)
  /\ \E i \in 1..Len(wf.edges) :
       /\ wf.edges[i].source = Last(resp.steps).nodeId
       /\ wf.edges[i].sourceHandle = "true"
  /\ \A i \in 1..Len(resp.steps) : resp.steps[i].type # "end"

-----------------------------------------------------------------------------
\* The ids one edge away from an id of S, and the ids one to n edges away.
Successors(w, S) ==
  {w.edges[i].target : i \in {j \in 1..Len(w.edges) : w.edges[j].source \in S}}

RECURSIVE Reachable(_, _, _)
Reachable(w, S, n) ==
  IF n = 0 THEN {}
  ELSE Successors(w, S) \cup Reachable(w, Successors(w, S), n - 1)

\* No id lies on a cycle of the edges, whatever their branch tags.
Acyclic(w) ==
  \A i \in 1..Len(w.edges) :
    w.edges[i].source \notin Reachable(w, {w.edges[i].source}, Len(w.edges))

(* C38.  On a graph whose edges contain no cycle no node is visited twice,  *)
(* the trace has at most as many steps as the graph has nodes, and Execute  *)
(* returns.                                                                 *)
C38_AcyclicTerminates ==
  /\ [](Acyclic(wf) =>
          /\ Len(steps) <= Len(wf.nodes)
          /\ \A i, j \in 1..Len(steps) :
               i # j => steps[i].nodeId # steps[j].nodeId)
  /\ (Acyclic(wf) => <>(pc = "returned"))

\* A walk over all three nodes of an acyclic graph has returned.
C38_Witness ==
  /\ Acyclic(wf)
  /\ pc = "returned"
  /\ Len(wf.nodes) = 3
  /\ Len(wf.edges) = 2
  /\ Len(resp.steps) = 3
  /\ resp.status = "completed"

-----------------------------------------------------------------------------
\* The branch tags edge resolution knows, and the edges carrying one.
KnownTag(e) == e.sourceHandle \in {"", "true", "false"}
KnownEdges(edges) == SelectSeq(edges, KnownTag)

\* What the variable map may hold under conditionMet: nothing, either
\* boolean, or a value that is no boolean.
ConditionValues ==
  {Absent, Bool(TRUE), Bool(FALSE), Str("true"), Str("maybe"), IntV(1)}

WithCondition(vs, c) ==
  IF c = Absent THEN [k \in DOMAIN vs \ {"conditionMet"} |-> vs[k]]
  ELSE Put(vs, "conditionMet", c)

(* C39.  An edge whose branch tag is non-empty and neither "true" nor       *)
(* "false" never matches, whatever the variable map holds under             *)
(* conditionMet: resolution from any node gives what it gives with those    *)
(* edges removed, gives "" when the node has no other edges, and the walk   *)
(* never moves along such an edge.  The first edge with a known tag that    *)
(* leaves a node, of whatever type, is followed when it is untagged, or     *)
(* tagged "true"/"false" with conditionMet the boolean of that name.        *)
C39_UnknownTagSkipped ==
  /\ \A id \in NodeIds(wf), c \in ConditionValues :
       LET vs    == WithCondition(vars, c)
           out   == {i \in 1..Len(wf.edges) : wf.edges[i].source = id}
           known == {i \in out : KnownTag(wf.edges[i])}
           nxt   == findNextNodeID(wf.edges, id, vs)
       IN /\ nxt = findNextNodeID(KnownEdges(wf.edges), id, vs)
          /\ known = {} => nxt = ""
          /\ known # {} =>
               LET e == wf.edges[Min(known)] IN
               /\ e.sourceHandle = "" => nxt = e.target
               /\ (e.sourceHandle = "true" /\ c = Bool(TRUE)) => nxt = e.target
               /\ (e.sourceHandle = "false" /\ c = Bool(FALSE)) => nxt = e.target
  /\ (pc = "loop" /\ Len(steps) >= 1) =>
       \E i \in 1..Len(wf.edges) :
         /\ wf.edges[i].source = Last(steps).nodeId
         /\ wf.edges[i].target = wf.nodes[current].id
         /\ KnownTag(wf.edges[i])

\* The start node's first edge is tagged "maybe" and leads to n3, its
\* second is tagged "true"; conditionMet came in as true with the inputs
\* and the walk went from the start node to n2.
C39_Witness ==
  /\ Len(wf.edges) = 2
  /\ wf.edges[1] = Edge("n1", "n3", "maybe")
  /\ wf.edges[2] = Edge("n1", "n2", "true")
  /\ Len(wf.nodes) = 3
  /\ Get(inputs0, "conditionMet") = Bool(TRUE)
  /\ Len(steps) >= 2
  /\ steps[1].nodeId = "n1"
  /\ steps[1].type = "start"
  /\ steps[2].nodeId = "n2"

====
